---- MODULE Spec2Model ----
(***************************************************************************)
(* A model of the tbap package: the HTTP request senders of tbap/server.py *)
(* (send_http_request, send_http_request_old), the Dframe constructor, the *)
(* request router and the public get_* functions of tbap/api.py, and the   *)
(* scalar flatteners of tbap/dframe.py and tbap/server.py.                 *)
(*                                                                         *)
(* Python values are modelled as follows.                                  *)
(*   - None in an argument or a dictionary slot is the string None.        *)
(*   - A dictionary is a function from its keys (strings) to its values.   *)
(*   - The text of a JSON key, a label or a column name is a sequence of   *)
(*     pieces whose concatenation it is; where the code looks inside a     *)
(*     text (a space, an underscore) that character is a piece of its own. *)
(*   - A parsed JSON value is a record [t, s, kids]: t is its type, s the  *)
(*     scalar's text, kids the ordered members [k |-> key, v |-> value] of *)
(*     an object or a list (k is <<>> for a list item).                    *)
(*   - A call's outcome is a record [kind, exc, data, frame, req]: kind is *)
(*     "dict", "frame" or "raise"; req is the HTTP request that was sent.  *)
(***************************************************************************)
EXTENDS Integers, Sequences, FiniteSets, TLC

VARIABLES
    session,    \* the api.Session object: username, key, data_format, time_zone
    debug,      \* Python's __debug__: FALSE when run with -O (assert statements removed)
    op,         \* the operation that ran last ("idle" before a call)
    call,       \* the arguments of that operation
    server,     \* what the remote server did with the request of that operation
    result,     \* the outcome of that operation
    doc,        \* the parsed JSON document handed to the scalar flatteners
    flat        \* the outcome of the last scalar flattening

vars == <<session, debug, op, call, server, result, doc, flat>>

-----------------------------------------------------------------------------
(* Bounds *)

\* The largest number of nodes (objects, lists and scalars, the top-level
\* object included) of a JSON document handed to the scalar flatteners.
MaxNodes == 4

-----------------------------------------------------------------------------
(* Python values *)

None == "None"

EmptyDict == [k \in {} |-> 0]

\* d[k] = v, the other entries kept (a new key is added at the end).
DictSet(d, k, v) == (k :> v) @@ d

\* dict.update in one step: the entries of e win.
DictUpdate(d, e) == e @@ d

-----------------------------------------------------------------------------
(* JSON values *)

JNull == [t |-> "null", s |-> "", kids |-> <<>>]
JStr(x) == [t |-> "str", s |-> x, kids |-> <<>>]
JNum(x) == [t |-> "num", s |-> x, kids |-> <<>>]
JObj(members) == [t |-> "obj", s |-> "", kids |-> members]
JList(items) == [t |-> "list", s |-> "", kids |-> items]
Member(key, val) == [k |-> key, v |-> val]
Item(val) == [k |-> <<>>, v |-> val]

isdict(val) == val.t = "obj"
islist(val) == val.t = "list"

\* The keys of an object's members, as a set.
KeysOf(members) == {members[i].k : i \in DOMAIN members}

-----------------------------------------------------------------------------
(* Text *)

Digits == <<"0", "1", "2", "3", "4", "5", "6", "7", "8", "9">>

\* str(n) of a non-negative integer, as characters.
RECURSIVE str(_)
str(n) == IF n < 10 THEN <<Digits[n + 1]>>
          ELSE str(n \div 10) \o <<Digits[(n % 10) + 1]>>

\* re.sub(" ", "_", key): every space of key replaced by an underscore.
re_sub_space(key) == [i \in DOMAIN key |-> IF key[i] = " " THEN "_" ELSE key[i]]

-----------------------------------------------------------------------------
(* tbap/dframe.py: build_single_column *)

Row(lbl, val) == [label |-> lbl, value |-> val]

\* append_scaler(key, val) and its two for loops; the value is the rows the
\* call appends to rows, in order.
RECURSIVE append_scaler(_, _), append_members(_, _, _), append_items(_, _, _)
\* append_scaler without its two "if not val" branches: an empty object or
\* list runs an empty for loop and appends nothing.
append_scaler_without_empty_branch(key0, val) ==
    LET key == re_sub_space(key0) IN
    IF isdict(val) THEN append_members(key, val, 1)
    ELSE IF islist(val) THEN append_items(key, val, 1)
    ELSE <<Row(key, val)>>

append_scaler(key0, val) ==
    LET key == re_sub_space(key0) IN
    IF isdict(val)
    THEN IF val.kids = <<>>
         THEN <<Row(key, JNull)>>
         ELSE append_members(key, val, 1)
    ELSE IF islist(val)
    THEN IF val.kids = <<>>
         THEN <<Row(key, JNull)>>
         ELSE append_items(key, val, 1)
    ELSE <<Row(key, val)>>

\* for subkey, subval in val.items(): append_scaler(key + "_" + subkey, subval)
append_members(key, val, i) ==
    IF i > Len(val.kids) THEN <<>>
    ELSE append_scaler(key \o <<"_">> \o val.kids[i].k, val.kids[i].v)
            \o append_members(key, val, i + 1)

\* The list loop with enumerate(val, 1): indexes counted from one.
append_items_from_one(key, val, i) ==
    IF i > Len(val.kids) THEN <<>>
    ELSE append_scaler(key \o <<"_">> \o str(i), val.kids[i].v)
            \o append_items(key, val, i + 1)

\* for idx, item in enumerate(val): append_scaler(key + "_" + str(idx), item)
append_items(key, val, i) ==
    IF i > Len(val.kids) THEN <<>>
    ELSE append_scaler(key \o <<"_">> \o str(i - 1), val.kids[i].v)
            \o append_items(key, val, i + 1)

\* for top_key, top_val in jdata.items(): append_scaler(top_key, top_val)
RECURSIVE append_top(_, _)
append_top(jdata, i) ==
    IF i > Len(jdata.kids) THEN <<>>
    ELSE append_scaler(jdata.kids[i].k, jdata.kids[i].v) \o append_top(jdata, i + 1)

\* The outcome of a flattening: kind is "frame" (a table indexed by label),
\* "series" or "raise".
FlatFrame(rows) == [kind |-> "frame", exc |-> "", rows |-> rows]
FlatSeries(rows) == [kind |-> "series", exc |-> "", rows |-> rows]
FlatRaise(e) == [kind |-> "raise", exc |-> e, rows |-> <<>>]
NoFlat == [kind |-> "none", exc |-> "", rows |-> <<>>]

\* pandas.DataFrame(rows).set_index(["label"]): a frame built from no rows has
\* no column named label, and set_index raises KeyError.
set_index_label(rows) ==
    IF rows = <<>> THEN FlatRaise("KeyError") ELSE FlatFrame(rows)

build_single_column(data, series) ==
    IF ~isdict(data)
    THEN FlatRaise("AttributeError")      \* jdata.items() of a list or a scalar
    ELSE LET rows == append_top(data, 1) IN
         IF series THEN FlatSeries(rows) ELSE set_index_label(rows)

-----------------------------------------------------------------------------
(* tbap/server.py: build_single_column_frame (without attach_attributes) *)

RECURSIVE frame_append_scaler(_, _), frame_append_members(_, _, _),
          frame_append_items(_, _, _)
frame_append_scaler(key, val) ==
    IF isdict(val)
    THEN IF val.kids = <<>>
         THEN <<Row(key, JNull)>>
         ELSE frame_append_members(key, val, 1)
    ELSE IF islist(val)
    THEN IF val.kids = <<>>
         THEN <<Row(key, JNull)>>
         ELSE frame_append_items(key, val, 1)
    ELSE <<Row(key, val)>>

frame_append_members(key, val, i) ==
    IF i > Len(val.kids) THEN <<>>
    ELSE frame_append_scaler(key \o <<"_">> \o val.kids[i].k, val.kids[i].v)
            \o frame_append_members(key, val, i + 1)

frame_append_items(key, val, i) ==
    IF i > Len(val.kids) THEN <<>>
    ELSE frame_append_scaler(key \o <<"_">> \o str(i - 1), val.kids[i].v)
            \o frame_append_items(key, val, i + 1)

RECURSIVE frame_append_top(_, _)
frame_append_top(jdata, i) ==
    IF i > Len(jdata.kids) THEN <<>>
    ELSE frame_append_scaler(jdata.kids[i].k, jdata.kids[i].v)
            \o frame_append_top(jdata, i + 1)

\* The table or series build_single_column_frame hands to attach_attributes.
build_single_column_frame_rows(data, series) ==
    IF ~isdict(data)
    THEN FlatRaise("AttributeError")
    ELSE LET rows == frame_append_top(data, 1) IN
         IF series THEN FlatSeries(rows) ELSE set_index_label(rows)

-----------------------------------------------------------------------------
(* The JSON documents handed to the flatteners *)

FlatScalars == {JNull, JStr("x")}

\* Keys without and with a space.
FlatKeys == { <<"a">>, <<"b">>, <<"a", " ", "b">> }

\* JSON values of exactly n nodes; ItemSeqs(m) and MemberSeqs(m) are the item
\* and member sequences whose values have m nodes in all.  The keys of one
\* object are distinct, as in a parsed JSON object.
RECURSIVE ValuesOfSize(_), ItemSeqs(_), MemberSeqs(_)
ValuesOfSize(n) ==
    IF n = 1
    THEN FlatScalars \cup {JObj(<<>>), JList(<<>>)}
    ELSE {JObj(m) : m \in MemberSeqs(n - 1)} \cup {JList(m) : m \in ItemSeqs(n - 1)}

ItemSeqs(m) ==
    IF m = 0 THEN {<<>>}
    ELSE UNION { { <<Item(v)>> \o rest : v \in ValuesOfSize(j), rest \in ItemSeqs(m - j) }
                 : j \in 1..m }

MemberSeqs(m) ==
    IF m = 0 THEN {<<>>}
    ELSE UNION { UNION { { <<Member(k, v)>> \o rest :
                               k \in FlatKeys \ KeysOf(rest), v \in ValuesOfSize(j) }
                         : rest \in MemberSeqs(m - j) }
                 : j \in 1..m }

\* The top level of a document is an object.
FlatDocs == UNION { {JObj(m) : m \in MemberSeqs(n - 1)} : n \in 1..MaxNodes }

\* Parsed JSON whose top level is no object: null, a string, a list.
NonObjectDocs == {JNull, JStr("x"), JList(<<>>), JList(<< Item(JStr("x")) >>)}

FlatInputs == FlatDocs \cup NonObjectDocs


-----------------------------------------------------------------------------
(* Sessions, requests, responses and outcomes *)

TBA_URL == "https://www.thebluealliance.com/api/v3"
APP_ID == "stacy_irwin:Tbap-Python-Package:0.9"

\* HTTP dates, and a string httpdate_to_datetime cannot parse.
HttpDate1 == "Wed, 30 Aug 2017 06:49:32 GMT"
HttpDate2 == "Thu, 31 Aug 2017 07:00:00 GMT"
NotADate == "last week"
Timestamps == {HttpDate1, HttpDate2, NotADate}
OptTimestamps == {None} \cup Timestamps

\* The text of a response: the body is held as the document json.loads makes
\* of it; NoText is Python's None in the "text" slot.
NoText == [t |-> "None", s |-> "", kids |-> <<>>]

NoRequest == [sent |-> FALSE, url |-> <<>>, hdrs |-> EmptyDict]
Request(url, hdrs) == [sent |-> TRUE, url |-> url, hdrs |-> hdrs]

NoFrame == [shape |-> "none", columns |-> <<>>, table |-> <<>>, index |-> <<>>,
            has_attr |-> FALSE, attr |-> EmptyDict]

\* A call that returned a dictionary, returned a table, or raised.
ReturnDict(d, req) ==
    [kind |-> "dict", exc |-> "", data |-> d, frame |-> NoFrame, req |-> req]
ReturnFrame(f, req) ==
    [kind |-> "frame", exc |-> "", data |-> EmptyDict, frame |-> f, req |-> req]
Raise(e, req) ==
    [kind |-> "raise", exc |-> e, data |-> EmptyDict, frame |-> NoFrame, req |-> req]
NoResult ==
    [kind |-> "none", exc |-> "", data |-> EmptyDict, frame |-> NoFrame, req |-> NoRequest]

\* What the server does with a request.  "response": urlopen returns a response
\* with a 2xx code; "HTTPError": urlopen raises urllib.error.HTTPError (every
\* other code, 304 included); "URLError": the request fails without a status;
\* "read_error": the response arrives and resp.read() raises (a reset
\* connection, an incomplete read), which is no URLError.
SrvResponse(code, body, lm) ==
    [kind |-> "response", code |-> code, body |-> body, last_modified |-> lm]
SrvHTTPError(code) ==
    [kind |-> "HTTPError", code |-> code, body |-> NoText, last_modified |-> None]
SrvURLError ==
    [kind |-> "URLError", code |-> 0, body |-> NoText, last_modified |-> None]
SrvReadError ==
    [kind |-> "read_error", code |-> 200, body |-> NoText, last_modified |-> None]
NoServer ==
    [kind |-> "none", code |-> 0, body |-> NoText, last_modified |-> None]

-----------------------------------------------------------------------------
(* tbap/server.py: the HTTP date check and the request senders *)

\* Whether httpdate_to_datetime(http_date, True) returns a datetime (truthy)
\* rather than False.
httpdate_to_datetime_ok(http_date) == http_date \in {HttpDate1, HttpDate2}

\* The response headers copied into data by "for key, value in resp.info().items()".
response_headers(srv) ==
    ("Last-Modified" :> srv.last_modified) @@ ("X-TBA-Version" :> "3")

\* send_http_request: the value is [req, data].  mod_since and only_mod_since
\* are parameters the body never reads.
send_http_request(sess, args, mod_since, only_mod_since, srv) ==
    LET url == <<TBA_URL>> \o args
        hdrs == ("X-TBA-Auth-Key" :> sess.key) @@ ("X-TBA-App-Id" :> APP_ID)
                    @@ ("User-Agent" :> APP_ID)
        data == IF srv.kind = "response"
                THEN response_headers(srv)
                        @@ [code |-> srv.code, text |-> srv.body, url |-> url,
                            args |-> args]
                ELSE IF srv.kind = "read_error"
                THEN [code |-> srv.code]     \* resp.read() raised: bare except
                ELSE EmptyDict               \* URLError, HTTPError: printed
    IN  [req |-> Request(url, hdrs), data |-> data]

\* send_http_request_old: the value is an outcome; now is the clock's reading.
send_http_request_old(sess, url, cmd, mod_since, only_mod_since, srv, now) ==
    IF mod_since # None /\ only_mod_since # None
    THEN Raise("ArgumentError", NoRequest)
    ELSE
    LET data0 == [text_format |-> "json"]    \* data_format is never "xml"
        hdrs0 == ("Accept" :> "application/schedule.json")
                    @@ ("Authorization" :> <<"Basic", sess.username, sess.key>>)
        hdrs1 == IF mod_since # None /\ httpdate_to_datetime_ok(mod_since)
                 THEN DictSet(hdrs0, "If-Modified-Since", mod_since) ELSE hdrs0
        hdrs == IF only_mod_since # None /\ httpdate_to_datetime_ok(only_mod_since)
                THEN DictSet(hdrs1, "FMS-OnlyModifiedSince", only_mod_since) ELSE hdrs1
        req == Request(url, hdrs)
        tail(d) == [time_downloaded |-> now, local_data |-> FALSE,
                    local_time |-> None, requested_url |-> d["url"],
                    frame_type |-> cmd, mod_since |-> mod_since,
                    only_mod_since |-> only_mod_since] @@ d
    IN  IF srv.kind = "response"
        THEN ReturnDict(tail(response_headers(srv)
                                @@ [code |-> srv.code, text |-> srv.body, url |-> url]
                                @@ data0), req)
        ELSE IF srv.kind = "HTTPError" /\ srv.code = 304
        THEN ReturnDict(tail([code |-> 304, text |-> NoText, url |-> url] @@ data0), req)
        ELSE IF srv.kind = "HTTPError"
        THEN Raise("HTTPError", req)         \* raise
        ELSE IF srv.kind = "URLError"
        THEN Raise("URLError", req)          \* not an HTTPError: not caught
        ELSE Raise("OSError", req)           \* resp.read() raised

\* attach_attributes: every entry of response but "text".
attach_attributes(dframe, response) ==
    [dframe EXCEPT !.has_attr = TRUE,
                   !.attr = [k \in DOMAIN response \ {"text"} |-> response[k]]]


-----------------------------------------------------------------------------
(* Tables *)

\* Sequence helpers.
RECURSIVE SeqUnion(_, _)
SeqUnion(seq, i) ==     \* the concatenation of seq[i], seq[i+1], ...
    IF i > Len(seq) THEN <<>> ELSE seq[i] \o SeqUnion(seq, i + 1)

RECURSIVE Dedup(_)
Dedup(seq) ==           \* seq with only the first occurrence of each element
    IF seq = <<>> THEN <<>>
    ELSE LET front == Dedup(SubSeq(seq, 1, Len(seq) - 1))
             last == seq[Len(seq)]
         IN  IF \E i \in DOMAIN front : front[i] = last THEN front
             ELSE Append(front, last)

Range(seq) == {seq[i] : i \in DOMAIN seq}

KeySeq(val) == [i \in DOMAIN val.kids |-> val.kids[i].k]

\* val[key] of an object that has the key.
Lookup(val, key) ==
    LET i == CHOOSE i \in DOMAIN val.kids : val.kids[i].k = key IN val.kids[i].v

\* pandas.DataFrame(records) filling the cell of a missing key with 0.
frame_of_records_filling_zero(records) ==
    LET cols == Dedup(SeqUnion([i \in DOMAIN records |-> KeySeq(records[i])], 1))
    IN  [shape |-> "table",
         columns |-> cols,
         table |-> [i \in DOMAIN records |->
                      [c \in Range(cols) |->
                          IF c \in KeysOf(records[i].kids)
                          THEN Lookup(records[i], c) ELSE JNum("0")]],
         index |-> <<>>, has_attr |-> FALSE, attr |-> EmptyDict]

\* pandas.DataFrame(records) of a list of objects: one row per object, the
\* columns are the union of the objects' keys, and a row that lacks a column
\* holds null (NaN) in it.  A cell may hold a nested value.
frame_of_records(records) ==
    LET cols == Dedup(SeqUnion([i \in DOMAIN records |-> KeySeq(records[i])], 1))
    IN  [shape |-> "table",
         columns |-> cols,
         table |-> [i \in DOMAIN records |->
                      [c \in Range(cols) |->
                          IF c \in KeysOf(records[i].kids)
                          THEN Lookup(records[i], c) ELSE JNull]],
         index |-> <<>>, has_attr |-> FALSE, attr |-> EmptyDict]


\* A table, or the exception raised instead of building one.
TableOk(f) == [ok |-> TRUE, exc |-> "", frame |-> f]
TableRaise(e) == [ok |-> FALSE, exc |-> e, frame |-> NoFrame]

\* pandas' nested_to_record: the members of an object with every nested
\* object replaced by its own members, named parent.child.
RECURSIVE nested_to_record(_, _)
nested_to_record(prefix, val) ==
    SeqUnion([i \in DOMAIN val.kids |->
                LET m == val.kids[i]
                    name == IF prefix = <<>> THEN m.k ELSE prefix \o <<".">> \o m.k
                IN  IF isdict(m.v) THEN nested_to_record(name, m.v)
                    ELSE <<Member(name, m.v)>>], 1)

AllDicts(items) == \A i \in DOMAIN items : isdict(items[i].v)
NoContainers(items) == \A i \in DOMAIN items : ~isdict(items[i].v) /\ ~islist(items[i].v)

\* pandas.DataFrame(data) of a parsed JSON list: objects give one row each;
\* scalars give one column, named 0.
frame_of_list(items) ==
    IF AllDicts(items)
    THEN TableOk(frame_of_records([i \in DOMAIN items |-> items[i].v]))
    ELSE IF NoContainers(items)
    THEN TableOk([shape |-> "table", columns |-> << <<"0">> >>,
                  table |-> [i \in DOMAIN items |-> [c \in {<<"0">>} |-> items[i].v]],
                  index |-> <<>>, has_attr |-> FALSE, attr |-> EmptyDict])
    ELSE TableRaise("ValueError")

\* pandas.read_json(jtxt) and pandas.read_json(jtxt, orient="records") of the
\* text of a JSON list.
read_json(jdata) == frame_of_list(jdata.kids)

\* pj.json_normalize(jdata): one row per object, nested objects spread into
\* parent.child columns.
json_normalize(jdata) ==
    IF ~AllDicts(jdata.kids) THEN TableRaise("AttributeError")
    ELSE TableOk(frame_of_records(
            [i \in DOMAIN jdata.kids |-> JObj(nested_to_record(<<>>, jdata.kids[i].v))]))

\* The records json_normalize pulls along a record path: obj[path[1]] is a
\* list; with a longer path, the lists found along the rest of the path in
\* each of its elements, one after the other.
RECURSIVE pull_records(_, _)
pull_records(obj, path) ==
    IF ~isdict(obj) THEN [ok |-> FALSE, exc |-> "TypeError", recs |-> <<>>]
    ELSE IF path[1] \notin KeysOf(obj.kids)
    THEN [ok |-> FALSE, exc |-> "KeyError", recs |-> <<>>]
    ELSE
    LET here == Lookup(obj, path[1]) IN
    IF ~islist(here) THEN [ok |-> FALSE, exc |-> "TypeError", recs |-> <<>>]
    ELSE IF Len(path) = 1 THEN [ok |-> TRUE, exc |-> "", recs |-> here.kids]
    ELSE
    LET below == [i \in DOMAIN here.kids |-> pull_records(here.kids[i].v, Tail(path))]
    IN  IF \E i \in DOMAIN below : ~below[i].ok
        THEN below[CHOOSE i \in DOMAIN below :
                      ~below[i].ok /\ \A j \in 1..(i - 1) : below[j].ok]
        ELSE [ok |-> TRUE, exc |-> "",
              recs |-> SeqUnion([i \in DOMAIN below |-> below[i].recs], 1)]

\* pj.json_normalize(jdata, record_path=path, meta=meta): one row per record
\* pulled along path, for every obj of jdata in order; each row also holds
\* obj[m] for every m of meta.  jdata is a list of objects.
json_normalize_records(jdata, path, meta) ==
    LET objs == [i \in DOMAIN jdata.kids |-> jdata.kids[i].v]
        pulled == [i \in DOMAIN objs |-> pull_records(objs[i], path)]
        row(obj, rec) ==
            JObj((IF isdict(rec.v) THEN nested_to_record(<<>>, rec.v)
                  ELSE <<Member(<<"0">>, rec.v)>>)
                 \o [j \in DOMAIN meta |-> Member(meta[j], Lookup(obj, meta[j]))])
    IN  IF \E i \in DOMAIN objs : ~pulled[i].ok
        THEN TableRaise(pulled[CHOOSE i \in DOMAIN objs :
                                   ~pulled[i].ok /\ \A j \in 1..(i - 1) : pulled[j].ok].exc)
        ELSE IF \E i \in DOMAIN objs : \E j \in DOMAIN meta :
                  meta[j] \notin KeysOf(objs[i].kids)
        THEN TableRaise("KeyError")
        ELSE IF \E i \in DOMAIN objs : \E r \in DOMAIN pulled[i].recs :
                  isdict(pulled[i].recs[r].v)
                  /\ KeysOf(nested_to_record(<<>>, pulled[i].recs[r].v)) \cap Range(meta) # {}
        THEN TableRaise("ValueError")        \* Conflicting metadata name
        ELSE LET f == frame_of_records(
                          SeqUnion([i \in DOMAIN objs |->
                                      [r \in DOMAIN pulled[i].recs |->
                                          row(objs[i], pulled[i].recs[r])]], 1))
             \* result[k] = np.array(v).repeat(lengths), also when no row was pulled
             IN  TableOk([f EXCEPT !.columns = Dedup(f.columns \o meta)])

\* DataFrame.drop of the columns named in names that the frame has.
drop_columns(f, names) ==
    LET keep == SelectSeq(f.columns, LAMBDA c : c \notin names)
    IN  [f EXCEPT !.columns = keep,
                  !.table = [i \in DOMAIN f.table |-> [c \in Range(keep) |-> f.table[i][c]]]]

-----------------------------------------------------------------------------
(* tbap/dframe.py: build_table *)

\* The keys of the first element, by the type of their value.
cols_of_type(first, type) ==
    IF ~isdict(first) THEN <<>>
    ELSE LET picked == SelectSeq(first.kids,
                 LAMBDA m : CASE type = "dict" -> isdict(m.v)
                              [] type = "list" -> islist(m.v)
                              [] OTHER -> ~isdict(m.v) /\ ~islist(m.v))
         IN  [i \in DOMAIN picked |-> picked[i].k]

\* build_table refusing a list whose first element is no object.
build_table_of_objects_only(response) ==
    IF "text" \notin DOMAIN response THEN TableRaise("KeyError")
    ELSE
    LET text == response["text"]
        jdata == IF isdict(text) THEN JList(<<Item(text)>>) ELSE text
    IN
    IF jdata.t = "None" THEN TableRaise("TypeError")            \* json.loads(None)
    ELSE IF jdata.t \in {"null", "num", "bool"} THEN TableRaise("TypeError")  \* jdata[0]
    ELSE IF jdata.t = "str"
    THEN IF jdata.s = "" THEN TableRaise("IndexError") ELSE TableRaise("ValueError")
    ELSE IF jdata.kids = <<>> THEN TableRaise("IndexError")     \* jdata[0]
    ELSE
    LET first == jdata.kids[1].v
        dict_cols == cols_of_type(first, "dict")
        list_cols == cols_of_type(first, "list")
        scaler_cols == cols_of_type(first, "scaler")
    IN
    IF Len(list_cols) = 1
    THEN json_normalize_records(jdata, list_cols, scaler_cols)
    ELSE IF Len(dict_cols) > 0
    THEN LET t == json_normalize(jdata)
         IN  IF t.ok THEN TableOk(drop_columns(t.frame, Range(dict_cols))) ELSE t
    ELSE IF ~isdict(first) THEN TableRaise("TypeError")
    ELSE read_json(jdata)

build_table(response) ==
    IF "text" \notin DOMAIN response THEN TableRaise("KeyError")
    ELSE
    LET text == response["text"]
        jdata == IF isdict(text) THEN JList(<<Item(text)>>) ELSE text
    IN
    IF jdata.t = "None" THEN TableRaise("TypeError")            \* json.loads(None)
    ELSE IF jdata.t \in {"null", "num", "bool"} THEN TableRaise("TypeError")  \* jdata[0]
    ELSE IF jdata.t = "str"
    THEN IF jdata.s = "" THEN TableRaise("IndexError") ELSE TableRaise("ValueError")
    ELSE IF jdata.kids = <<>> THEN TableRaise("IndexError")     \* jdata[0]
    ELSE
    LET first == jdata.kids[1].v
        dict_cols == cols_of_type(first, "dict")
        list_cols == cols_of_type(first, "list")
        scaler_cols == cols_of_type(first, "scaler")
    IN
    IF Len(list_cols) = 1
    THEN json_normalize_records(jdata, list_cols, scaler_cols)
    ELSE IF Len(dict_cols) > 0
    THEN LET t == json_normalize(jdata)
         IN  IF t.ok THEN TableOk(drop_columns(t.frame, Range(dict_cols))) ELSE t
    ELSE read_json(jdata)


-----------------------------------------------------------------------------
(* tbap/server.py: Dframe.__init__, for a dictionary response *)

\* The one-row table built from frame_data = {column: value} and index [0].
one_cell_frame(column, value, response) ==
    [shape |-> "not_modified", columns |-> <<column>>,
     table |-> << [c \in {column} |-> value] >>, index |-> <<0>>,
     has_attr |-> TRUE, attr |-> response]

\* The branch that converts the JSON text (server.py 405-453).
Dframe_from_json(response) ==
    LET text == response["text"] IN
    IF text.t = "None" THEN TableRaise("TypeError")              \* json.loads(None)
    ELSE IF ~isdict(text) THEN TableRaise("AttributeError")      \* json_data.keys()
    ELSE
    LET single == Len(text.kids) = 1
        json_data == IF single THEN text.kids[1].v ELSE text
    IN
    IF single /\ ~islist(json_data)
    THEN IF "data_format" \in DOMAIN response
         THEN TableRaise("JSONDecodeError") ELSE TableRaise("KeyError")
    ELSE IF islist(json_data) /\ json_data.kids = <<>>
    THEN TableRaise("IndexError")                                \* json_data[0]
    ELSE IF islist(json_data) /\ ~isdict(json_data.kids[1].v)
    THEN TableRaise("AttributeError")                            \* json_data[0].items()
    ELSE
    LET items == IF isdict(json_data) THEN json_data.kids ELSE json_data.kids[1].v.kids
        lists == SelectSeq(items, LAMBDA m : islist(m.v) /\ m.k # <<>>)
        othrs == SelectSeq(items, LAMBDA m : ~islist(m.v) /\ m.k # <<>>)
        record_path == [i \in DOMAIN lists |-> lists[i].k]
        meta == [i \in DOMAIN othrs |-> othrs[i].k]
        as_list == IF isdict(json_data) THEN JList(<<Item(json_data)>>) ELSE json_data
    IN  IF record_path = <<>> THEN read_json(as_list)
        ELSE json_normalize_records(as_list, record_path, meta)

\* Dframe(response) with the two column names exchanged in the 304 branch.
Dframe_init_columns_exchanged(response, dbg) ==
    IF "code" \notin DOMAIN response \/ "text" \notin DOMAIN response
    THEN Raise("KeyError", NoRequest)
    ELSE IF response["code"] = 304 /\ response["text"] = NoText
    THEN IF "mod_since" \notin DOMAIN response THEN Raise("KeyError", NoRequest)
         ELSE IF response["mod_since"] # None
         THEN ReturnFrame(one_cell_frame("FMS-OnlyModifiedSince", response["mod_since"],
                                         response), NoRequest)
         ELSE IF "only_mod_since" \notin DOMAIN response THEN Raise("KeyError", NoRequest)
         ELSE IF dbg /\ response["only_mod_since"] = None
         THEN Raise("AssertionError", NoRequest)
         ELSE ReturnFrame(one_cell_frame("If-Modified-Since",
                                         response["only_mod_since"], response), NoRequest)
    ELSE LET t == Dframe_from_json(response)
         IN  IF t.ok
             THEN ReturnFrame([t.frame EXCEPT !.has_attr = TRUE, !.attr = response],
                              NoRequest)
             ELSE Raise(t.exc, NoRequest)

\* Dframe(response); dbg is __debug__ (assert statements are executed).
Dframe_init(response, dbg) ==
    IF "code" \notin DOMAIN response \/ "text" \notin DOMAIN response
    THEN Raise("KeyError", NoRequest)
    ELSE IF response["code"] = 304 /\ response["text"] = NoText
    THEN IF "mod_since" \notin DOMAIN response THEN Raise("KeyError", NoRequest)
         ELSE IF response["mod_since"] # None
         THEN ReturnFrame(one_cell_frame("If-Modified-Since", response["mod_since"],
                                         response), NoRequest)
         ELSE IF "only_mod_since" \notin DOMAIN response THEN Raise("KeyError", NoRequest)
         ELSE IF dbg /\ response["only_mod_since"] = None
         THEN Raise("AssertionError", NoRequest)
         ELSE ReturnFrame(one_cell_frame("FMS-OnlyModifiedSince",
                                         response["only_mod_since"], response), NoRequest)
    ELSE LET t == Dframe_from_json(response)
         IN  IF t.ok
             THEN ReturnFrame([t.frame EXCEPT !.has_attr = TRUE, !.attr = response],
                              NoRequest)
             ELSE Raise(t.exc, NoRequest)

-----------------------------------------------------------------------------
(* tbap/api.py: send_request *)

K_key == <<"key">>

\* frame.set_index(index, inplace=True), the KeyError of a missing column passed over.
set_index_or_skip(f, index) ==
    IF index \in Range(f.columns)
    THEN [f EXCEPT !.index = <<index>>,
                   !.columns = SelectSeq(f.columns, LAMBDA c : c # index)]
    ELSE f

\* The table form of build_single_column as a frame.
single_column_frame(fl) ==
    [shape |-> "single_column", columns |-> << <<"value">> >>,
     table |-> fl.rows, index |-> << <<"label">> >>,
     has_attr |-> FALSE, attr |-> EmptyDict]

\* index is <<>> (None) or <<column name>>.
send_request(sess, http_args, normalize, index, mod_since, srv) ==
    LET sent == send_http_request(sess, http_args, mod_since, None, srv)
        http_response == sent.data
    IN
    IF sess.data_format # "dataframe" THEN ReturnDict(http_response, sent.req)
    ELSE IF "code" \notin DOMAIN http_response THEN Raise("KeyError", sent.req)
    ELSE IF http_response["code"] # 200 THEN ReturnDict(http_response, sent.req)
    ELSE IF normalize = "table"
    THEN LET t == build_table(http_response)
         IN  IF ~t.ok THEN Raise(t.exc, sent.req)
             ELSE ReturnFrame(
                    attach_attributes(
                        IF index # <<>> THEN set_index_or_skip(t.frame, index[1]) ELSE t.frame,
                        http_response),
                    sent.req)
    ELSE IF "text" \notin DOMAIN http_response THEN Raise("KeyError", sent.req)
    ELSE IF http_response["text"].t = "None" THEN Raise("TypeError", sent.req)
    ELSE LET fl == build_single_column(http_response["text"], FALSE)
         IN  IF fl.kind = "raise" THEN Raise(fl.exc, sent.req)
             ELSE ReturnFrame(attach_attributes(single_column_frame(fl), http_response),
                              sent.req)


-----------------------------------------------------------------------------
(* tbap/api.py: the public functions *)

ReturnFrames(f, req) ==     \* a dictionary of tables, each like f
    [kind |-> "frames", exc |-> "", data |-> EmptyDict, frame |-> f, req |-> req]
ReturnNone(req) ==
    [kind |-> "none", exc |-> "", data |-> EmptyDict, frame |-> NoFrame, req |-> req]

\* str.lower() of the response arguments in use.
lower(x) ==
    CASE x = "Keys" -> "keys"
      [] x = "Simple" -> "simple"
      [] x = "Full" -> "full"
      [] x = "JSON" -> "json"
      [] x = "DataFrame" -> "dataframe"
      [] OTHER -> x

\* results.columns = [name]: an attribute a dictionary does not have; a table
\* takes the new name when it has exactly one column.
set_columns(res, name) ==
    IF res.kind = "raise" THEN res
    ELSE IF res.kind = "dict" THEN Raise("AttributeError", res.req)
    ELSE IF Len(res.frame.columns) # 1 THEN Raise("ValueError", res.req)
    ELSE LET old == res.frame.columns[1] IN
         [res EXCEPT !.frame.columns = <<name>>,
                     !.frame.table = [i \in DOMAIN res.frame.table |->
                                         [c \in {name} |-> res.frame.table[i][old]]]]

\* The table a shaping function builds by hand from the payload of its own
\* endpoint; the rows are not part of the state.
shaped(name) ==
    [shape |-> name, columns |-> <<>>, table |-> <<>>, index |-> <<>>,
     has_attr |-> FALSE, attr |-> EmptyDict]

\* data = server.send_http_request(session, http_args, mod_since) followed by
\*     if session.data_format != "dataframe" or data["code"] != 200: return data
\* done: the function ends here with out; otherwise it goes on with data.
fetch(sess, http_args, mod_since, srv) ==
    LET sent == send_http_request(sess, http_args, mod_since, None, srv) IN
    IF sess.data_format # "dataframe"
    THEN [done |-> TRUE, out |-> ReturnDict(sent.data, sent.req), data |-> sent.data,
          req |-> sent.req]
    ELSE IF "code" \notin DOMAIN sent.data
    THEN [done |-> TRUE, out |-> Raise("KeyError", sent.req), data |-> sent.data,
          req |-> sent.req]
    ELSE IF sent.data["code"] # 200
    THEN [done |-> TRUE, out |-> ReturnDict(sent.data, sent.req), data |-> sent.data,
          req |-> sent.req]
    ELSE [done |-> FALSE, out |-> NoResult, data |-> sent.data, req |-> sent.req]

\* json.loads(data["text"]) of a response whose reading broke off raises KeyError.
fetch_then(f, frame_out) ==
    IF f.done THEN f.out
    ELSE IF "text" \notin DOMAIN f.data THEN Raise("KeyError", f.req)
    ELSE frame_out

get_status(sess, srv) ==
    send_request(sess, <<"status">>, "single_column", <<>>, None, srv)

get_districts(sess, year, team, mod_since, srv) ==
    IF year = None /\ team # None
    THEN send_request(sess, <<"team", team, "districts">>, "table", <<K_key>>, mod_since, srv)
    ELSE IF year # None /\ team = None
    THEN send_request(sess, <<"districts", year>>, "table", <<K_key>>, mod_since, srv)
    ELSE Raise("ArgumentError", NoRequest)

with_response(http_args, response, which) ==
    IF lower(response) \in which THEN Append(http_args, lower(response)) ELSE http_args

\* get_teams taking a year next to a district.
get_teams_year_with_district(sess, page, year, event, district, response, mod_since, srv) ==
    LET ok == \/ page # None /\ year = None /\ event = None /\ district = None
              \/ page # None /\ year # None /\ event = None /\ district = None
              \/ district # None /\ event = None /\ page = None
              \/ event # None /\ year = None /\ district = None /\ page = None
        http_args ==
            IF page # None /\ year = None THEN <<"teams", page>>
            ELSE IF page # None THEN <<"teams", year, page>>
            ELSE IF district # None THEN <<"district", district, "teams">>
            ELSE <<"event", event, "teams">>
    IN  IF ~ok THEN Raise("ArgumentError", NoRequest)
        ELSE LET results == send_request(sess, with_response(http_args, response,
                                                              {"simple", "keys"}),
                                         "table", <<K_key>>, mod_since, srv)
             IN  IF response = "keys" THEN set_columns(results, <<"team">>)
                 ELSE results

get_teams(sess, page, year, event, district, response, mod_since, srv) ==
    LET ok == \/ page # None /\ year = None /\ event = None /\ district = None
              \/ page # None /\ year # None /\ event = None /\ district = None
              \/ district # None /\ year = None /\ event = None /\ page = None
              \/ event # None /\ year = None /\ district = None /\ page = None
        http_args ==
            IF page # None /\ year = None THEN <<"teams", page>>
            ELSE IF page # None THEN <<"teams", year, page>>
            ELSE IF district # None THEN <<"district", district, "teams">>
            ELSE <<"event", event, "teams">>
    IN  IF ~ok THEN Raise("ArgumentError", NoRequest)
        ELSE LET results == send_request(sess, with_response(http_args, response,
                                                              {"simple", "keys"}),
                                         "table", <<K_key>>, mod_since, srv)
             IN  IF response = "keys" THEN set_columns(results, <<"team">>)
                 ELSE results

get_team(sess, team, response, mod_since, srv) ==
    LET results == send_request(sess, with_response(<<"team", team>>, response,
                                    {"simple", "years_participated", "robots"}),
                                "table", <<K_key>>, mod_since, srv)
    IN  IF response = "years_participated" THEN set_columns(results, <<"year">>)
        ELSE results


-----------------------------------------------------------------------------
(* tbap/dframe.py: expand_column *)

\* expand_column(dframe, col_name) of a table.  The first cell of the column
\* that is not null gives the keys; with the default index, cell [0] is the
\* cell of the first row, which dropna may have removed.
expand_column_frame(f, col_name) ==
    IF col_name \notin Range(f.columns) THEN TableOk(f)
    ELSE
    LET filled == SelectSeq(f.table, LAMBDA r : r[col_name] # JNull) IN
    IF filled = <<>> THEN TableOk(f)
    ELSE IF f.index = <<>> /\ f.table[1][col_name] = JNull THEN TableRaise("KeyError")
    ELSE IF ~isdict(filled[1][col_name]) THEN TableRaise("AttributeError")
    ELSE
    LET keys == KeySeq(filled[1][col_name])
        subs == [i \in DOMAIN keys |-> col_name \o <<"_">> \o keys[i]]
        cols == Dedup(SelectSeq(f.columns, LAMBDA c : c # col_name) \o subs)
        get_val(cell, key) ==
            IF isdict(cell) /\ key \in KeysOf(cell.kids) THEN Lookup(cell, key) ELSE JNull
        sub_val(r, c) ==
            LET i == CHOOSE i \in DOMAIN subs :
                        subs[i] = c /\ \A j \in (i + 1)..Len(subs) : subs[j] # c
            IN  get_val(r[col_name], keys[i])
    IN  TableOk([f EXCEPT
                    !.columns = cols,
                    !.table = [i \in DOMAIN f.table |->
                                 [c \in Range(cols) |->
                                     IF c \in Range(subs) THEN sub_val(f.table[i], c)
                                     ELSE f.table[i][c]]]])

\* expand_column of what send_request returned: a dictionary has no key
\* named like the column and comes back as it is.
expand_column(res, col_name, col_text) ==
    IF res.kind = "raise" THEN res
    ELSE IF res.kind = "dict"
    THEN IF col_text \in DOMAIN res.data THEN Raise("AttributeError", res.req) ELSE res
    ELSE LET t == expand_column_frame(res.frame, col_name)
         IN  IF t.ok THEN [res EXCEPT !.frame = t.frame] ELSE Raise(t.exc, res.req)

-----------------------------------------------------------------------------
(* tbap/api.py: the public functions, continued *)

\* get_events taking a year next to a district.
get_events_year_with_district(sess, year, district, team, event, response, mod_since, srv) ==
    LET ok == \/ year # None /\ district = None /\ team = None /\ event = None
              \/ district # None /\ team = None /\ event = None
              \/ team # None /\ year = None /\ district = None /\ event = None
              \/ team # None /\ year # None /\ district = None /\ event = None
              \/ event # None /\ team = None /\ year = None /\ district = None
                    /\ response # "keys"
        http_args ==
            IF year # None /\ team = None THEN <<"events", year>>
            ELSE IF district # None THEN <<"district", district, "events">>
            ELSE IF team # None /\ year = None THEN <<"team", team, "events">>
            ELSE IF team # None THEN <<"team", team, "events", year>>
            ELSE <<"event", event>>
    IN  IF ~ok THEN Raise("ArgumentError", NoRequest)
        ELSE LET results == send_request(sess, with_response(http_args, response,
                                                              {"simple", "keys"}),
                                         "table", <<K_key>>, mod_since, srv)
                 renamed == IF response = "keys" THEN set_columns(results, K_key)
                            ELSE results
             IN  expand_column(renamed, <<"district">>, "district")

get_events(sess, year, district, team, event, response, mod_since, srv) ==
    LET ok == \/ year # None /\ district = None /\ team = None /\ event = None
              \/ district # None /\ year = None /\ team = None /\ event = None
              \/ team # None /\ year = None /\ district = None /\ event = None
              \/ team # None /\ year # None /\ district = None /\ event = None
              \/ event # None /\ team = None /\ year = None /\ district = None
                    /\ response # "keys"
        http_args ==
            IF year # None /\ team = None THEN <<"events", year>>
            ELSE IF district # None THEN <<"district", district, "events">>
            ELSE IF team # None /\ year = None THEN <<"team", team, "events">>
            ELSE IF team # None THEN <<"team", team, "events", year>>
            ELSE <<"event", event>>
    IN  IF ~ok THEN Raise("ArgumentError", NoRequest)
        ELSE LET results == send_request(sess, with_response(http_args, response,
                                                              {"simple", "keys"}),
                                         "table", <<K_key>>, mod_since, srv)
                 renamed == IF response = "keys" THEN set_columns(results, K_key)
                            ELSE results
             IN  expand_column(renamed, <<"district">>, "district")

\* The columns get_district_rankings selects.
RankingColumns ==
    << <<"rank">>, <<"team_key">>, <<"point_total">>, <<"rookie_bonus">>,
       <<"event_key">>, <<"district_cmp">>, <<"total">>, <<"qual_points">>,
       <<"alliance_points">>, <<"elim_points">>, <<"award_points">> >>

get_district_rankings(sess, district, mod_since, srv) ==
    LET df == send_request(sess, <<"district", district, "rankings">>, "table", <<>>,
                           mod_since, srv)
    IN  IF df.kind = "raise" THEN df
        ELSE IF df.kind = "dict" THEN Raise("AttributeError", df.req)   \* df.loc
        ELSE IF ~(Range(RankingColumns) \subseteq Range(df.frame.columns))
        THEN Raise("KeyError", df.req)
        ELSE [df EXCEPT !.frame.columns = RankingColumns,
                        !.frame.table = [i \in DOMAIN df.frame.table |->
                                            [c \in Range(RankingColumns) |->
                                                df.frame.table[i][c]]]]

get_awards(sess, event, team, year, mod_since, srv) ==
    LET ok == \/ event = None /\ team # None /\ year # None
              \/ team # None /\ event = None /\ year = None
              \/ team # None /\ event # None /\ year = None
              \/ event # None /\ team = None /\ year = None
        http_args ==
            IF event = None /\ year # None THEN <<"team", team, "awards", year>>
            ELSE IF event = None THEN <<"team", team, "awards">>
            ELSE IF team # None THEN <<"team", team, "event", event, "awards">>
            ELSE <<"event", event, "awards">>
    IN  IF ~ok THEN Raise("ArgumentError", NoRequest)
        ELSE send_request(sess, http_args, "table", <<>>, mod_since, srv)


\* Whether the payload has what get_matches reads of every match: the two
\* alliances with their team lists, score and disqualified teams, and the key.
match_payload_ok(text) ==
    LET jdata == IF islist(text) THEN text ELSE JList(<<Item(text)>>)
        has(obj, key) == isdict(obj) /\ key \in KeysOf(obj.kids)
        alliance_ok(a) ==
            /\ has(a, <<"team_keys">>) /\ islist(Lookup(a, <<"team_keys">>))
            /\ has(a, <<"surrogate_team_keys">>)
            /\ islist(Lookup(a, <<"surrogate_team_keys">>))
            /\ has(a, <<"score">>)
            /\ has(a, <<"dq_team_keys">>)
        match_ok(m) ==
            /\ has(m, K_key)
            /\ has(m, <<"alliances">>)
            /\ has(Lookup(m, <<"alliances">>), <<"blue">>)
            /\ has(Lookup(m, <<"alliances">>), <<"red">>)
            /\ alliance_ok(Lookup(Lookup(m, <<"alliances">>), <<"blue">>))
            /\ alliance_ok(Lookup(Lookup(m, <<"alliances">>), <<"red">>))
    IN  /\ jdata.kids # <<>>
        /\ \A i \in DOMAIN jdata.kids : match_ok(jdata.kids[i].v)

\* get_matches without the test of response in the branch of match.
get_matches_any_response_of_match(sess, event, team, year, match, response, mod_since, srv) ==
    LET ok == \/ event # None /\ team = None /\ year = None /\ match = None
              \/ team # None /\ event # None /\ year = None /\ match = None
              \/ team # None /\ year # None /\ event = None /\ match = None
              \/ match # None /\ event = None /\ team = None /\ year = None
        http_args ==
            IF event # None /\ team = None THEN <<"event", event, "matches">>
            ELSE IF team # None /\ event # None
            THEN <<"team", team, "event", event, "matches">>
            ELSE IF team # None THEN <<"team", team, "matches", year>>
            ELSE <<"match", match>>
    IN
    IF ~ok THEN Raise("ArgumentError", NoRequest)
    ELSE
    LET f == fetch(sess, with_response(http_args, response, {"simple", "keys"}),
                   mod_since, srv)
    IN
    IF f.done THEN f.out
    ELSE IF lower(response) = "keys"
    THEN LET t == build_table(f.data)
         IN  IF ~t.ok THEN Raise(t.exc, f.req)
             ELSE LET named == set_columns(ReturnFrame(t.frame, f.req), K_key)
                  IN  IF named.kind = "raise" THEN named
                      ELSE ReturnFrame(attach_attributes(named.frame, f.data), f.req)
    ELSE IF "text" \notin DOMAIN f.data THEN Raise("KeyError", f.req)
    ELSE IF ~match_payload_ok(f.data["text"]) THEN Raise("KeyError", f.req)
    \* server.attach_attributes(df, http_data, {"timezone": ...}): attach_attributes
    \* takes two arguments.
    ELSE Raise("TypeError", f.req)

get_matches(sess, event, team, year, match, response, mod_since, srv) ==
    LET ok == \/ event # None /\ team = None /\ year = None /\ match = None
              \/ team # None /\ event # None /\ year = None /\ match = None
              \/ team # None /\ year # None /\ event = None /\ match = None
              \/ match # None /\ event = None /\ team = None /\ year = None
                    /\ response \in {"full", "simple"}
        http_args ==
            IF event # None /\ team = None THEN <<"event", event, "matches">>
            ELSE IF team # None /\ event # None
            THEN <<"team", team, "event", event, "matches">>
            ELSE IF team # None THEN <<"team", team, "matches", year>>
            ELSE <<"match", match>>
    IN
    IF ~ok THEN Raise("ArgumentError", NoRequest)
    ELSE
    LET f == fetch(sess, with_response(http_args, response, {"simple", "keys"}),
                   mod_since, srv)
    IN
    IF f.done THEN f.out
    ELSE IF lower(response) = "keys"
    THEN LET t == build_table(f.data)
         IN  IF ~t.ok THEN Raise(t.exc, f.req)
             ELSE LET named == set_columns(ReturnFrame(t.frame, f.req), K_key)
                  IN  IF named.kind = "raise" THEN named
                      ELSE ReturnFrame(attach_attributes(named.frame, f.data), f.req)
    ELSE IF "text" \notin DOMAIN f.data THEN Raise("KeyError", f.req)
    ELSE IF ~match_payload_ok(f.data["text"]) THEN Raise("KeyError", f.req)
    \* server.attach_attributes(df, http_data, {"timezone": ...}): attach_attributes
    \* takes two arguments.
    ELSE Raise("TypeError", f.req)

get_alliances(sess, event, mod_since, srv) ==
    LET f == fetch(sess, <<"event", event, "alliances">>, mod_since, srv)
    IN  fetch_then(f, ReturnFrame(attach_attributes(shaped("alliances"), f.data), f.req))

get_insights(sess, event, mod_since, srv) ==
    LET f == fetch(sess, <<"event", event, "insights">>, mod_since, srv)
    IN  fetch_then(f, ReturnFrame(attach_attributes(shaped("insights"), f.data), f.req))

get_oprs(sess, event, mod_since, srv) ==
    LET f == fetch(sess, <<"event", event, "oprs">>, mod_since, srv)
    IN  fetch_then(f, ReturnFrame(attach_attributes(shaped("oprs"), f.data), f.req))

get_predictions(sess, event, mod_since, srv) ==
    LET f == fetch(sess, <<"event", event, "predictions">>, mod_since, srv)
    IN  fetch_then(f, ReturnFrames(attach_attributes(shaped("predictions"), f.data), f.req))

get_event_team_status(sess, event, team, series, mod_since, srv) ==
    LET f == fetch(sess, <<"team", team, "event", event, "status">>, mod_since, srv)
    IN  fetch_then(f,
            IF team # None
            THEN ReturnFrame(attach_attributes(
                                shaped(IF series THEN "event_team_status_series"
                                       ELSE "event_team_status"), f.data), f.req)
            ELSE ReturnNone(f.req))

get_event_rankings(sess, event, mod_since, srv) ==
    LET f == fetch(sess, <<"event", event, "rankings">>, mod_since, srv)
    IN  fetch_then(f, ReturnFrame(attach_attributes(shaped("event_rankings"), f.data), f.req))

get_district_points(sess, event, mod_since, srv) ==
    LET f == fetch(sess, <<"event", event, "district_points">>, mod_since, srv)
    IN  fetch_then(f, ReturnFrames(shaped("district_points"), f.req))

\* return pandas.io.json.json_normalize(jdata), of get_media and get_social_media.
normalized(f) ==
    LET text == f.data["text"]
        t == IF isdict(text) THEN json_normalize(JList(<<Item(text)>>))
             ELSE IF islist(text) THEN json_normalize(text)
             ELSE TableRaise("NotImplementedError")
    IN  IF t.ok THEN ReturnFrame(t.frame, f.req) ELSE Raise(t.exc, f.req)

get_media(sess, team, year, mod_since, srv) ==
    LET f == fetch(sess, <<"team", team, "media", year>>, mod_since, srv)
    IN  IF f.done THEN f.out
        ELSE IF "text" \notin DOMAIN f.data THEN Raise("KeyError", f.req)
        ELSE normalized(f)

get_social_media(sess, team, mod_since, srv) ==
    LET f == fetch(sess, <<"team", team, "social_media">>, mod_since, srv)
    IN  IF f.done THEN f.out
        ELSE IF "text" \notin DOMAIN f.data THEN Raise("KeyError", f.req)
        ELSE normalized(f)


-----------------------------------------------------------------------------
(* The inputs of the calls *)

DefaultSession ==
    [username |-> "username", key |-> "key", data_format |-> "dataframe",
     time_zone |-> "America/Los_Angeles"]

\* Session.data_format is "dataframe" or "json" (api.py 966-977).
Sessions == {[DefaultSession EXCEPT !.data_format = f] : f \in {"dataframe", "json"}}

Pages == {None, "1"}
Years == {None, "2017"}
Events == {None, "2017pnw"}
Districts == {None, "pnw"}
Teams == {None, "frc1318"}
MatchKeys == {None, "2017wasno_qm79"}
Responses == {"full", "simple", "keys", "Keys"}
TeamResponses == {"full", "simple", "years_participated", "robots"}
ModSince == {None, HttpDate1}

\* datetime.datetime.now(), as datetime_to_httpdate(..., False) writes it.
Clock == {"Thu, 31 Aug 2017 07:00:01"}

\* Response bodies: a list of objects, a list of keys, a status object.
TeamsBody ==
    JList(<< Item(JObj(<< Member(K_key, JStr("frc1")), Member(<<"name">>, JStr("x")) >>)),
             Item(JObj(<< Member(K_key, JStr("frc2")) >>)) >>)
KeysBody == JList(<< Item(JStr("frc1")), Item(JStr("frc2")) >>)
StatusBody ==
    JObj(<< Member(<<"max", "_", "season">>, JNum("2018")),
            Member(<<"down", " ", "events">>, JList(<<>>)),
            Member(<<"ios">>, JObj(<< Member(<<"min", " ", "app">>, JNum("1")) >>)) >>)
\* One match as the matches endpoints send it: two alliances, one surrogate
\* team, one disqualified team.
Alliance(teams, surrogates, score, dq) ==
    JObj(<< Member(<<"score">>, JNum(score)),
            Member(<<"team_keys">>, JList([i \in DOMAIN teams |-> Item(JStr(teams[i]))])),
            Member(<<"surrogate_team_keys">>,
                   JList([i \in DOMAIN surrogates |-> Item(JStr(surrogates[i]))])),
            Member(<<"dq_team_keys">>, JList([i \in DOMAIN dq |-> Item(JStr(dq[i]))])) >>)
MatchBody ==
    JObj(<< Member(K_key, JStr("2017wasno_qm79")),
            Member(<<"alliances">>,
                   JObj(<< Member(<<"blue">>, Alliance(<<"frc1", "frc2">>, <<"frc3">>, "10", <<"frc2">>)),
                           Member(<<"red">>, Alliance(<<"frc4">>, <<>>, "20", <<>>)) >>)) >>)
Bodies == {TeamsBody, KeysBody, StatusBody, MatchBody}

\* The text of a response without content.
EmptyText == [t |-> "empty", s |-> "", kids |-> <<>>]

ServerOutcomes ==
    {SrvResponse(200, b, HttpDate2) : b \in Bodies}
        \cup {SrvResponse(204, EmptyText, None)}
        \cup {SrvHTTPError(c) : c \in {304, 401, 404}}
        \cup {SrvURLError, SrvReadError}

BlankCall ==
    [page |-> None, year |-> None, event |-> None, district |-> None, team |-> None,
     match |-> None, response |-> "full", series |-> FALSE, mod_since |-> None,
     only_mod_since |-> None]

\* Responses written by hand and passed to Dframe: a 304 without text, with
\* any of the two timestamps.
HandBuilt ==
    {[code |-> 304, text |-> NoText, url |-> <<TBA_URL, "teams">>, mod_since |-> m,
      only_mod_since |-> o] : m \in OptTimestamps, o \in OptTimestamps}

-----------------------------------------------------------------------------
(* The state machine of the HTTP calls *)

Init ==
    /\ session \in Sessions
    /\ debug \in BOOLEAN
    /\ op = "idle"
    /\ call = BlankCall
    /\ server = NoServer
    /\ result = NoResult
    /\ doc = JObj(<<>>)
    /\ flat = NoFlat

\* Ran, had the call stored the format of what it returned in the session.
Ran_storing_the_format(name, c, srv, out) ==
    /\ op = "idle"
    /\ op' = name
    /\ call' = c
    /\ server' = srv
    /\ result' = out
    /\ session' = [session EXCEPT !.data_format =
                                     IF out.kind = "dict" THEN "json" ELSE @]
    /\ UNCHANGED <<debug, doc, flat>>

\* A call of name with arguments c under server outcome srv ends with out.
Ran(name, c, srv, out) ==
    /\ op = "idle"
    /\ op' = name
    /\ call' = c
    /\ server' = srv
    /\ result' = out
    /\ UNCHANGED <<session, debug, doc, flat>>

SendHttpRequest ==
    \E m \in OptTimestamps, o \in OptTimestamps, srv \in ServerOutcomes :
        LET sent == send_http_request(session, <<"status">>, m, o, srv)
        IN  Ran("send_http_request",
                [BlankCall EXCEPT !.mod_since = m, !.only_mod_since = o],
                srv, ReturnDict(sent.data, sent.req))

SendHttpRequestOld ==
    \E m \in OptTimestamps, o \in OptTimestamps, srv \in ServerOutcomes, now \in Clock :
        Ran("send_http_request_old",
            [BlankCall EXCEPT !.mod_since = m, !.only_mod_since = o],
            srv, send_http_request_old(session, <<TBA_URL, "teams">>, "teams", m, o, srv, now))

\* Dframe(response) of the response send_http_request_old returned.
DframeOfResponse ==
    /\ op = "send_http_request_old"
    /\ result.kind = "dict"
    /\ op' = "Dframe"
    /\ result' = Dframe_init(result.data, debug)
    /\ UNCHANGED <<session, debug, call, server, doc, flat>>

\* Dframe(response) of a response written by hand.
DframeOfDict ==
    \E response \in HandBuilt :
        Ran("Dframe_of_dict",
            [BlankCall EXCEPT !.mod_since = response["mod_since"],
                              !.only_mod_since = response["only_mod_since"]],
            NoServer, Dframe_init(response, debug))

GetStatus ==
    \E srv \in ServerOutcomes :
        Ran("get_status", BlankCall, srv, get_status(session, srv))

GetDistricts ==
    \E y \in Years, t \in Teams, m \in ModSince, srv \in ServerOutcomes :
        Ran("get_districts", [BlankCall EXCEPT !.year = y, !.team = t, !.mod_since = m],
            srv, get_districts(session, y, t, m, srv))

GetTeams ==
    \E p \in Pages, y \in Years, e \in Events, d \in Districts, r \in Responses,
       m \in ModSince, srv \in ServerOutcomes :
        Ran("get_teams",
            [BlankCall EXCEPT !.page = p, !.year = y, !.event = e, !.district = d,
                              !.response = r, !.mod_since = m],
            srv, get_teams(session, p, y, e, d, r, m, srv))

GetTeam ==
    \E r \in TeamResponses, m \in ModSince, srv \in ServerOutcomes :
        Ran("get_team", [BlankCall EXCEPT !.team = "frc1318", !.response = r, !.mod_since = m],
            srv, get_team(session, "frc1318", r, m, srv))

GetEvents ==
    \E y \in Years, d \in Districts, t \in Teams, e \in Events, r \in Responses,
       m \in ModSince, srv \in ServerOutcomes :
        Ran("get_events",
            [BlankCall EXCEPT !.year = y, !.district = d, !.team = t, !.event = e,
                              !.response = r, !.mod_since = m],
            srv, get_events(session, y, d, t, e, r, m, srv))

GetMatches ==
    \E e \in Events, t \in Teams, y \in Years, k \in MatchKeys, r \in Responses,
       m \in ModSince, srv \in ServerOutcomes :
        Ran("get_matches",
            [BlankCall EXCEPT !.event = e, !.team = t, !.year = y, !.match = k,
                              !.response = r, !.mod_since = m],
            srv, get_matches(session, e, t, y, k, r, m, srv))

GetDistrictRankings ==
    \E m \in ModSince, srv \in ServerOutcomes :
        Ran("get_district_rankings", [BlankCall EXCEPT !.district = "pnw", !.mod_since = m],
            srv, get_district_rankings(session, "pnw", m, srv))

GetAwards ==
    \E e \in Events, t \in Teams, y \in Years, m \in ModSince, srv \in ServerOutcomes :
        Ran("get_awards",
            [BlankCall EXCEPT !.event = e, !.team = t, !.year = y, !.mod_since = m],
            srv, get_awards(session, e, t, y, m, srv))

\* The functions of one event: get_alliances, get_insights, get_oprs,
\* get_predictions, get_event_rankings, get_district_points.
EventFunctions ==
    {"get_alliances", "get_insights", "get_oprs", "get_predictions",
     "get_event_rankings", "get_district_points"}

event_function(name, sess, event, mod_since, srv) ==
    CASE name = "get_alliances" -> get_alliances(sess, event, mod_since, srv)
      [] name = "get_insights" -> get_insights(sess, event, mod_since, srv)
      [] name = "get_oprs" -> get_oprs(sess, event, mod_since, srv)
      [] name = "get_predictions" -> get_predictions(sess, event, mod_since, srv)
      [] name = "get_event_rankings" -> get_event_rankings(sess, event, mod_since, srv)
      [] name = "get_district_points" -> get_district_points(sess, event, mod_since, srv)

GetOfEvent ==
    \E name \in EventFunctions, m \in ModSince, srv \in ServerOutcomes :
        Ran(name, [BlankCall EXCEPT !.event = "2017pnw", !.mod_since = m],
            srv, event_function(name, session, "2017pnw", m, srv))

GetEventTeamStatus ==
    \E t \in Teams, sr \in BOOLEAN, m \in ModSince, srv \in ServerOutcomes :
        Ran("get_event_team_status",
            [BlankCall EXCEPT !.event = "2017pnw", !.team = t, !.series = sr, !.mod_since = m],
            srv, get_event_team_status(session, "2017pnw", t, sr, m, srv))

GetMedia ==
    \E m \in ModSince, srv \in ServerOutcomes :
        Ran("get_media", [BlankCall EXCEPT !.team = "frc1318", !.year = "2017", !.mod_since = m],
            srv, get_media(session, "frc1318", "2017", m, srv))

GetSocialMedia ==
    \E m \in ModSince, srv \in ServerOutcomes :
        Ran("get_social_media", [BlankCall EXCEPT !.team = "frc1318", !.mod_since = m],
            srv, get_social_media(session, "frc1318", m, srv))

\* The caller takes the outcome; the next call starts afresh.
Return ==
    /\ op # "idle"
    /\ op' = "idle"
    /\ call' = BlankCall
    /\ server' = NoServer
    /\ result' = NoResult
    /\ UNCHANGED <<session, debug, doc, flat>>

Next ==
    \/ SendHttpRequest
    \/ SendHttpRequestOld
    \/ DframeOfResponse
    \/ DframeOfDict
    \/ GetStatus
    \/ GetDistricts
    \/ GetTeams
    \/ GetTeam
    \/ GetEvents
    \/ GetMatches
    \/ GetDistrictRankings
    \/ GetAwards
    \/ GetOfEvent
    \/ GetEventTeamStatus
    \/ GetMedia
    \/ GetSocialMedia
    \/ Return

Spec == Init /\ [][Next]_vars


-----------------------------------------------------------------------------
(* The state machine of the scalar flatteners *)

InitFlat ==
    /\ session = DefaultSession
    /\ debug = TRUE
    /\ op = "idle"
    /\ call = BlankCall
    /\ server = NoServer
    /\ result = NoResult
    /\ doc \in FlatInputs
    /\ flat = NoFlat

\* The response build_single_column_frame attaches to what it built.
FlatResponse(data) ==
    [code |-> 200, text |-> data, url |-> <<TBA_URL, "status">>]

\* dframe.build_single_column(doc, series)
BuildSingleColumn ==
    \E series \in BOOLEAN :
        /\ op = "idle"
        /\ op' = "build_single_column"
        /\ call' = [BlankCall EXCEPT !.series = series]
        /\ flat' = build_single_column(doc, series)
        /\ UNCHANGED <<session, debug, server, result, doc>>

\* dframe.build_single_column(doc, series) that keeps the underscored keys: the
\* top-level keys of the document are rewritten in place.
BuildSingleColumnAgain_rewriting_keys ==
    \E series \in BOOLEAN :
        /\ op = "build_single_column"
        /\ op' = "build_single_column_again"
        /\ call' = [BlankCall EXCEPT !.series = series]
        /\ flat' = build_single_column(doc, series)
        /\ doc' = IF isdict(doc)
                  THEN JObj([i \in DOMAIN doc.kids |->
                                Member(re_sub_space(doc.kids[i].k), doc.kids[i].v)])
                  ELSE doc
        /\ UNCHANGED <<session, debug, server, result>>

\* A second dframe.build_single_column(doc, series) of the document that has
\* just been flattened; the function reads jdata and writes only its own rows.
BuildSingleColumnAgain ==
    \E series \in BOOLEAN :
        /\ op = "build_single_column"
        /\ op' = "build_single_column_again"
        /\ call' = [BlankCall EXCEPT !.series = series]
        /\ flat' = build_single_column(doc, series)
        /\ UNCHANGED <<session, debug, server, result, doc>>

\* server.build_single_column_frame(doc, response, series)
BuildSingleColumnFrame ==
    \E series \in BOOLEAN :
        LET built == build_single_column_frame_rows(doc, series) IN
        /\ op = "idle"
        /\ op' = "build_single_column_frame"
        /\ call' = [BlankCall EXCEPT !.series = series]
        /\ flat' = built
        /\ result' = IF built.kind = "raise" THEN Raise(built.exc, NoRequest)
                     ELSE ReturnFrame(attach_attributes(single_column_frame(built),
                                                        FlatResponse(doc)), NoRequest)
        /\ UNCHANGED <<session, debug, server, doc>>

ReturnFlat ==
    /\ op # "idle"
    /\ op' = "idle"
    /\ call' = BlankCall
    /\ result' = NoResult
    /\ flat' = NoFlat
    /\ UNCHANGED <<session, debug, server, doc>>

NextFlat ==
    \/ BuildSingleColumn
    \/ BuildSingleColumnAgain
    \/ BuildSingleColumnFrame
    \/ ReturnFlat

SpecFlat == InitFlat /\ [][NextFlat]_vars


-----------------------------------------------------------------------------
(* The scalar flattener: what a document's leaves are, stated on paths *)

\* A path is the sequence of child positions from the document's top level.
RECURSIVE NodeAt(_, _)
NodeAt(val, p) == IF p = <<>> THEN val ELSE NodeAt(val.kids[Head(p)].v, Tail(p))

\* The paths from val to the values below it that have no children: scalars,
\* empty objects and empty lists.
RECURSIVE PathsOf(_)
PathsOf(val) ==
    IF val.kids = <<>> THEN {<<>>}
    ELSE UNION { {<<i>> \o q : q \in PathsOf(val.kids[i].v)} : i \in DOMAIN val.kids }

LeafPaths(d) == IF d.kids = <<>> THEN {} ELSE PathsOf(d)

IsEmptyContainer(val) == (isdict(val) \/ islist(val)) /\ val.kids = <<>>

EmptyPaths(d) == {p \in LeafPaths(d) : IsEmptyContainer(NodeAt(d, p))}

\* The i-th component of the label of path p: the key under an object, the
\* 0-based index under a list.
PathStep(d, p, i) ==
    LET parent == NodeAt(d, SubSeq(p, 1, i - 1)) IN
    IF isdict(parent) THEN parent.kids[p[i]].k ELSE str(p[i] - 1)

\* The components of p[1..i] joined by "_".
RECURSIVE PathLabel(_, _, _)
PathLabel(d, p, i) ==
    IF i = 1 THEN PathStep(d, p, 1)
    ELSE PathLabel(d, p, i - 1) \o <<"_">> \o PathStep(d, p, i)

NoSpace(lbl) == \A i \in DOMAIN lbl : lbl[i] # " "
Underscored(lbl) == [i \in DOMAIN lbl |-> IF lbl[i] = " " THEN "_" ELSE lbl[i]]

\* Depth-first order, children in iteration order: q comes before p.
Before(q, p) ==
    \E i \in 1..Len(q) :
        /\ i <= Len(p)
        /\ q[i] < p[i]
        /\ \A j \in 1..(i - 1) : q[j] = p[j]

Position(d, p) == 1 + Cardinality({q \in LeafPaths(d) : Before(q, p)})

LeafValue(d, p) ==
    LET n == NodeAt(d, p) IN IF IsEmptyContainer(n) THEN JNull ELSE n

\* build_single_column has flattened a JSON object.
Flattened == op = "build_single_column" /\ isdict(doc)

\* C8 as stated: build_single_column emits one (label, value) pair per leaf,
\* depth-first in key order and index order, the label being the keys and
\* 0-based indexes on the path to the leaf joined by "_", and as many pairs
\* as there are leaves.
C8_LabelsAreRawPaths ==
    Flattened =>
        /\ Len(flat.rows) = Cardinality(LeafPaths(doc))
        /\ \A p \in LeafPaths(doc) :
               flat.rows[Position(doc, p)] = Row(PathLabel(doc, p, Len(p)), LeafValue(doc, p))

\* C8, amended: build_single_column emits one (label, value) pair per leaf
\* (scalar, empty object or empty list), depth-first in key order and index
\* order; the label is the keys and 0-based indexes on the path joined by "_"
\* with every space replaced by an underscore; there are as many pairs as
\* leaves.
C8_LabelsAreUnderscoredPaths ==
    Flattened =>
        /\ Len(flat.rows) = Cardinality(LeafPaths(doc))
        /\ \A p \in LeafPaths(doc) :
               flat.rows[Position(doc, p)] =
                   Row(Underscored(PathLabel(doc, p, Len(p))), LeafValue(doc, p))

\* A flattened document with a key that holds a space, an object level and a
\* list level, and more than one leaf.
C8_Witness ==
    /\ Flattened
    /\ flat.kind = "frame"
    /\ Len(flat.rows) = 2
    /\ \E p \in LeafPaths(doc) :
           /\ Len(p) = 2
           /\ ~NoSpace(PathLabel(doc, p, 2))
    /\ \E p \in LeafPaths(doc) : Len(p) = 2 /\ islist(NodeAt(doc, <<p[1]>>))

ExampleDoc == JObj(<< Member(<<"a">>, JObj(<<>>)), Member(<<"b">>, JList(<<>>)) >>)

\* C9: in build_single_column an empty object or empty list below the top
\* level is a terminal: it emits exactly one pair (its label, null) in its
\* place and raises nothing; {"a": {}, "b": []} gives [("a", null), ("b", null)].
C9_EmptyContainerIsTerminal ==
    (Flattened /\ EmptyPaths(doc) # {}) =>
        /\ flat.kind # "raise"
        /\ Len(flat.rows) = Cardinality(LeafPaths(doc))
        /\ \A p \in EmptyPaths(doc) :
               LET row == flat.rows[Position(doc, p)] IN
               /\ row.value = JNull
               /\ row.label = Underscored(PathLabel(doc, p, Len(p)))
        /\ doc = ExampleDoc =>
               flat.rows = << Row(<<"a">>, JNull), Row(<<"b">>, JNull) >>

C9_Witness ==
    /\ Flattened
    /\ doc = ExampleDoc
    /\ flat.kind = "frame"
    /\ Len(flat.rows) = 2

\* C10: no label emitted by a scalar flattener holds a space, whichever entry
\* point (dframe.build_single_column, server.build_single_column_frame) made it.
C10_NoSpaceInLabels ==
    op \in {"build_single_column", "build_single_column_frame"} =>
        \A i \in DOMAIN flat.rows : NoSpace(flat.rows[i].label)

\* build_single_column_frame has flattened a document with a space in a key.
C10_Witness ==
    /\ op = "build_single_column_frame"
    /\ flat.kind = "frame"
    /\ \E p \in LeafPaths(doc) : ~NoSpace(PathLabel(doc, p, Len(p)))


-----------------------------------------------------------------------------
(* The freshness protocol and the error paths of the public functions *)

GetOps ==
    {"get_status", "get_districts", "get_teams", "get_team", "get_events",
     "get_matches", "get_district_rankings", "get_awards", "get_event_team_status",
     "get_media", "get_social_media"} \cup EventFunctions

Senders == {"send_http_request", "send_http_request_old"}

\* C1: a sender called with both mod_since and only_mod_since raises
\* ArgumentError, whatever the two values, and sends no request.
C1_BothTimestampsRaise ==
    (op \in Senders /\ call.mod_since # None /\ call.only_mod_since # None) =>
        /\ result.kind = "raise"
        /\ result.exc = "ArgumentError"
        /\ ~result.req.sent

\* send_http_request_old has refused the two timestamps together.
C1_Witness ==
    /\ op = "send_http_request_old"
    /\ call.mod_since # None
    /\ call.only_mod_since # None
    /\ result.kind = "raise"
    /\ result.exc = "ArgumentError"

\* C2: the request a get_* function sends when called with mod_since = t
\* carries the header "If-Modified-Since" with the value t.
C2_ModSinceIsSent ==
    (op \in GetOps /\ call.mod_since # None /\ result.req.sent) =>
        /\ "If-Modified-Since" \in DOMAIN result.req.hdrs
        /\ result.req.hdrs["If-Modified-Since"] = call.mod_since

\* C3: a get_* function called with mod_since = t whose request the server
\* answers with 304 returns, in either data_format, a dictionary with code 304,
\* without "text", and with "If-Modified-Since" equal to t.
C3_NotModifiedDict ==
    (op \in GetOps /\ call.mod_since # None /\ result.req.sent
        /\ server = SrvHTTPError(304)) =>
        /\ result.kind = "dict"
        /\ "code" \in DOMAIN result.data
        /\ result.data["code"] = 304
        /\ "text" \notin DOMAIN result.data
        /\ "If-Modified-Since" \in DOMAIN result.data
        /\ result.data["If-Modified-Since"] = call.mod_since

\* Dframe has been given a 304 response without text.
DframeOf304 ==
    \/ op = "Dframe" /\ server = SrvHTTPError(304)
    \/ op = "Dframe_of_dict"

\* C4: the table Dframe makes of a 304 response without text, when the request
\* used one of the two timestamps, has one row and one column; the column is
\* "If-Modified-Since" for mod_since and "FMS-OnlyModifiedSince" for
\* only_mod_since, and the cell is the timestamp string as it was supplied.
C4_NotModifiedTable ==
    (DframeOf304 /\ (call.mod_since = None) # (call.only_mod_since = None)) =>
        /\ result.kind = "frame"
        /\ Len(result.frame.table) = 1
        /\ Len(result.frame.columns) = 1
        /\ call.mod_since # None =>
               /\ result.frame.columns = <<"If-Modified-Since">>
               /\ result.frame.table[1]["If-Modified-Since"] = call.mod_since
        /\ call.only_mod_since # None =>
               /\ result.frame.columns = <<"FMS-OnlyModifiedSince">>
               /\ result.frame.table[1]["FMS-OnlyModifiedSince"] = call.only_mod_since

\* A request with only_mod_since, answered 304, made into a table.
C4_Witness ==
    /\ op = "Dframe"
    /\ server = SrvHTTPError(304)
    /\ call.mod_since = None
    /\ call.only_mod_since = HttpDate1
    /\ result.kind = "frame"
    /\ result.frame.columns = <<"FMS-OnlyModifiedSince">>

\* C5: Dframe of a 304 response raises when neither or both of mod_since and
\* only_mod_since are present in it, and succeeds only when exactly one is.
C5_InconsistentRaises ==
    DframeOf304 =>
        ((result.kind = "raise") <=>
            ((call.mod_since = None) = (call.only_mod_since = None)))

\* What send_http_request answers to the request the call has sent.
SentData == send_http_request(session, Tail(result.req.url), None, None, server).data

\* C6: a get_* function called with allowed arguments, when data_format is not
\* "dataframe" or the response code is not 200, returns the dictionary the
\* sender produced, unchanged, and raises nothing.
C6_DictPassesThrough ==
    (op \in GetOps /\ result.req.sent
        /\ (\/ session.data_format # "dataframe"
            \/ "code" \notin DOMAIN SentData
            \/ SentData["code"] # 200)) =>
        /\ result.kind = "dict"
        /\ result.data = SentData

Reason(code) ==
    CASE code = 401 -> "Unauthorized"
      [] code = 404 -> "Not Found"
      [] OTHER -> "Not Modified"

ErrorMessage(code) == <<"HTTPError, Code ">> \o str(code) \o <<": ", Reason(code)>>

\* C7: when the server rejects the request with an HTTP error status such as
\* 401, the function returns a dictionary whose "code" is the status and whose
\* "error_message" is "HTTPError, Code <status>: <reason>".
C7_ErrorStatusIsReported ==
    (op \in GetOps /\ result.req.sent /\ server.kind = "HTTPError"
        /\ server.code \in {401, 404}) =>
        /\ result.kind = "dict"
        /\ "code" \in DOMAIN result.data
        /\ result.data["code"] = server.code
        /\ "error_message" \in DOMAIN result.data
        /\ result.data["error_message"] = ErrorMessage(server.code)


-----------------------------------------------------------------------------
(* The scalar flattener: errors, label uniqueness, repetition *)

\* C11: build_single_column raises nothing for any parsed JSON input, in the
\* table form and in the series form; the empty object {} gives an empty
\* result, and an input whose top level is no object is accepted too.
C11_FlattenerNeverRaises ==
    op = "build_single_column" =>
        /\ flat.kind \in {"frame", "series"}
        /\ doc = JObj(<<>>) => flat.rows = <<>>

\* The series form of {}: an empty series, no error.
C11_Witness ==
    /\ op = "build_single_column"
    /\ doc = JObj(<<>>)
    /\ flat.kind = "series"
    /\ flat.rows = <<>>

\* C12: in the table form of build_single_column no two rows have the same
\* label.
C12_LabelsAreUnique ==
    (Flattened /\ flat.kind = "frame") =>
        \A i, j \in DOMAIN flat.rows :
            i # j => flat.rows[i].label # flat.rows[j].label

-----------------------------------------------------------------------------
(* The state machine of the table normalizers *)

\* The largest number of nodes of a JSON document handed to build_table.
MaxTableNodes == 5

TableScalars == {JNum("1"), JNull}
TableKeys == { <<"a">>, <<"attr">> }

RECURSIVE TableValuesOfSize(_), TableItemSeqs(_), TableMemberSeqs(_)
TableValuesOfSize(n) ==
    IF n = 1
    THEN TableScalars \cup {JObj(<<>>), JList(<<>>)}
    ELSE {JObj(m) : m \in TableMemberSeqs(n - 1)}
            \cup {JList(m) : m \in TableItemSeqs(n - 1)}

TableItemSeqs(m) ==
    IF m = 0 THEN {<<>>}
    ELSE UNION { { <<Item(v)>> \o rest : v \in TableValuesOfSize(j),
                                         rest \in TableItemSeqs(m - j) }
                 : j \in 1..m }

TableMemberSeqs(m) ==
    IF m = 0 THEN {<<>>}
    ELSE UNION { UNION { { <<Member(k, v)>> \o rest :
                               k \in TableKeys \ KeysOf(rest), v \in TableValuesOfSize(j) }
                         : rest \in TableMemberSeqs(m - j) }
                 : j \in 1..m }

IsScalar(val) == ~isdict(val) /\ ~islist(val)
AllScalars(items) == \A i \in DOMAIN items : IsScalar(items[i].v)

\* An object whose values are scalars.
IsFlatObject(val) == isdict(val) /\ AllScalars(val.kids)

\* A list of records: scalars only, or flat objects only.
IsRecordList(val) ==
    /\ islist(val)
    /\ \/ AllScalars(val.kids)
       \/ \A i \in DOMAIN val.kids : IsFlatObject(val.kids[i].v)

\* One element of a payload: an object whose values are scalars, flat objects
\* or lists of records.
IsPayloadObject(val) ==
    /\ isdict(val)
    /\ \A i \in DOMAIN val.kids :
           LET v == val.kids[i].v IN IsScalar(v) \/ IsFlatObject(v) \/ IsRecordList(v)

\* The payloads handed to the normalizers: a bare scalar, a list of scalars
\* (the empty list too), one object, or a list of objects in which a key that
\* holds a list in the first object holds a list wherever it appears.
IsPayload(val) ==
    \/ IsScalar(val)
    \/ IsPayloadObject(val)
    \/ /\ islist(val)
       /\ \/ AllScalars(val.kids)
          \/ /\ \A i \in DOMAIN val.kids : IsPayloadObject(val.kids[i].v)
             /\ \A i \in DOMAIN val.kids : \A j \in DOMAIN val.kids[i].v.kids :
                    LET m == val.kids[i].v.kids[j]
                        first == val.kids[1].v
                    IN  (m.k \in KeysOf(first.kids) /\ islist(Lookup(first, m.k)))
                            => islist(m.v)

TableDocs ==
    {d \in UNION {TableValuesOfSize(n) : n \in 1..MaxTableNodes} : IsPayload(d)}
        \cup {JStr("x")}

\* The response of a request answered 200 with the document as its text.
TableResponse(d) ==
    send_http_request(DefaultSession, <<"teams">>, None, None,
                      SrvResponse(200, d, HttpDate2)).data

InitTable ==
    /\ session = DefaultSession
    /\ debug = TRUE
    /\ op = "idle"
    /\ call = BlankCall
    /\ server = NoServer
    /\ result = NoResult
    /\ doc \in TableDocs
    /\ flat = NoFlat

\* dframe.build_table(response); the outcome keeps the response next to the table.
BuildTable ==
    LET response == TableResponse(doc)
        t == build_table(response)
    IN  /\ op = "idle"
        /\ op' = "build_table"
        /\ result' = IF t.ok
                     THEN [ReturnFrame(t.frame, NoRequest) EXCEPT !.data = response]
                     ELSE Raise(t.exc, NoRequest)
        /\ UNCHANGED <<session, debug, call, server, doc, flat>>

\* dframe.attr = {} (server.py 347) on a table that has a column named attr:
\* pandas routes the assignment of an existing column's name to the column.
\* Depending on the pandas version the empty dictionary is refused for a table
\* with rows (ValueError: length of values does not match length of index) or
\* stored as a column without values; no dictionary is bound to the table.
K_attr == <<"attr">>
attr_is_column(dframe) == K_attr \in Range(dframe.columns)
attr_column_assigned(dframe) ==
    [dframe EXCEPT !.table = [i \in DOMAIN dframe.table |->
                                 [dframe.table[i] EXCEPT ![K_attr] = JNull]]]

\* server.attach_attributes(dframe, response) of the table build_table made.
AttachAttributes ==
    /\ op = "build_table"
    /\ result.kind = "frame"
    /\ op' = "attach_attributes"
    /\ IF attr_is_column(result.frame)
       THEN \/ /\ result.frame.table # <<>>
               /\ result' = [Raise("ValueError", NoRequest) EXCEPT !.data = result.data]
            \/ result' = [result EXCEPT !.frame = attr_column_assigned(result.frame)]
       ELSE result' = [result EXCEPT !.frame = attach_attributes(result.frame, result.data)]
    /\ UNCHANGED <<session, debug, call, server, doc, flat>>

\* server.Dframe(response) of a response with the document as its text.
DframeOfText ==
    /\ op = "idle"
    /\ op' = "Dframe_of_text"
    /\ result' = Dframe_init(TableResponse(doc), debug)
    /\ UNCHANGED <<session, debug, call, server, doc, flat>>

ReturnTable ==
    /\ op # "idle"
    /\ op' = "idle"
    /\ result' = NoResult
    /\ UNCHANGED <<session, debug, call, server, doc, flat>>

NextTable ==
    \/ BuildTable
    \/ AttachAttributes
    \/ DframeOfText
    \/ ReturnTable

SpecTable == InitTable /\ [][NextTable]_vars


-----------------------------------------------------------------------------
(* The table normalizer: what the rows of a payload are, stated on the payload *)

\* The documents of a payload: the object itself, or the elements of the list.
DocsOf(d) == IF isdict(d) THEN <<d>> ELSE [i \in DOMAIN d.kids |-> d.kids[i].v]

KeysWhere(obj, Test(_)) == {obj.kids[i].k : i \in {j \in DOMAIN obj.kids : Test(obj.kids[j].v)}}

ListKeys(obj) == KeysWhere(obj, islist)
ObjectKeys(obj) == KeysWhere(obj, isdict)
ScalarKeys(obj) == KeysWhere(obj, IsScalar)

\* The key set of a record: its keys, or the column 0 of a bare scalar.
RecordKeys(rec) == IF isdict(rec) THEN KeysOf(rec.kids) ELSE { <<"0">> }

\* The keys of a document with every nested object spread into parent.child.
DottedKeys(obj) ==
    (KeysOf(obj.kids) \ ObjectKeys(obj))
        \cup UNION { {k \o <<".">> \o sub : sub \in KeysOf(Lookup(obj, k).kids)}
                     : k \in ObjectKeys(obj) }

\* The sequences seq[1], seq[2], ... one after the other.
RECURSIVE Flatten(_)
Flatten(seq) == IF seq = <<>> THEN <<>> ELSE Head(seq) \o Flatten(Tail(seq))

\* The records along the one list-valued key lk, document after document.
RecordsAlong(d, lk) ==
    Flatten([i \in DOMAIN DocsOf(d) |->
                [r \in DOMAIN Lookup(DocsOf(d)[i], lk).kids |->
                    Lookup(DocsOf(d)[i], lk).kids[r].v]])

\* The key set of every row of the table of payload d, in row order.
RowKeySets(d) ==
    LET docs == DocsOf(d)
        first == docs[1]
    IN  IF ~isdict(first) THEN [i \in DOMAIN docs |-> { <<"0">> }]
        ELSE IF Cardinality(ListKeys(first)) = 1
        THEN LET recs == RecordsAlong(d, CHOOSE k \in ListKeys(first) : TRUE)
             IN  [r \in DOMAIN recs |-> RecordKeys(recs[r]) \cup ScalarKeys(first)]
        ELSE IF ObjectKeys(first) # {}
        THEN [i \in DOMAIN docs |-> DottedKeys(docs[i]) \ ObjectKeys(first)]
        ELSE [i \in DOMAIN docs |-> KeysOf(docs[i].kids)]

BuiltTable == op = "build_table" /\ result.kind = "frame"

\* C14 as stated: in a table build_table produced every row's key set is
\* within the column set, the column set is the union of the rows' key sets,
\* and a row holds null in every column it has no key for.
C14_ColumnUnion ==
    BuiltTable =>
        LET f == result.frame
            keys == RowKeySets(doc)
            cols == Range(f.columns)
        IN  /\ Len(f.table) = Len(keys)
            /\ \A i \in DOMAIN keys :
                   /\ keys[i] \subseteq cols
                   /\ DOMAIN f.table[i] = cols
                   /\ \A c \in cols \ keys[i] : f.table[i][c] = JNull
            /\ cols = UNION {keys[i] : i \in DOMAIN keys}

\* The columns a table has without any row: the scalar keys broadcast along
\* the one list-valued key, when every one of its lists is empty.
ColumnsWithoutRows(d) ==
    LET first == DocsOf(d)[1] IN
    IF isdict(first) /\ Cardinality(ListKeys(first)) = 1 /\ RowKeySets(d) = <<>>
    THEN ScalarKeys(first) ELSE {}

\* C14, amended: in a table build_table produced every row's key set is
\* within the column set and a row holds null in every column it has no key
\* for; the column set is the union of the rows' key sets, and when the table
\* has no row (every list along the record path is empty) it is the set of the
\* broadcast scalar keys.
C14_ColumnUnionOrBroadcastKeys ==
    BuiltTable =>
        LET f == result.frame
            keys == RowKeySets(doc)
            cols == Range(f.columns)
        IN  /\ Len(f.table) = Len(keys)
            /\ \A i \in DOMAIN keys :
                   /\ keys[i] \subseteq cols
                   /\ DOMAIN f.table[i] = cols
                   /\ \A c \in cols \ keys[i] : f.table[i][c] = JNull
            /\ cols = UNION {keys[i] : i \in DOMAIN keys} \cup ColumnsWithoutRows(doc)

\* A table of two rows, one of which lacks a column of the other.
C14_Witness ==
    /\ BuiltTable
    /\ Len(result.frame.table) = 2
    /\ Len(result.frame.columns) = 2
    /\ \E c \in Range(result.frame.columns) :
           /\ c \notin RowKeySets(doc)[2]
           /\ result.frame.table[2][c] = JNull
           /\ result.frame.table[1][c] # JNull

\* An object with a single key whose value is a list of objects.
WrappedList(d) ==
    /\ isdict(d)
    /\ Len(d.kids) = 1
    /\ islist(d.kids[1].v)
    /\ AllDicts(d.kids[1].v.kids)

\* C15: normalizing an object with a single key whose value is a list of N
\* objects, by build_table or by Dframe, gives a table of exactly N rows, the
\* i-th row holding the values of the i-th element, with the union of the
\* elements' keys as its columns.
C15_WrappedListGivesItsElements ==
    (op \in {"build_table", "Dframe_of_text"} /\ WrappedList(doc)) =>
        LET els == doc.kids[1].v.kids IN
        /\ result.kind = "frame"
        /\ Len(result.frame.table) = Len(els)
        /\ Range(result.frame.columns) = UNION {KeysOf(els[i].v.kids) : i \in DOMAIN els}
        /\ \A i \in DOMAIN els : \A c \in KeysOf(els[i].v.kids) :
               result.frame.table[i][c] = Lookup(els[i].v, c)

\* Dframe of {"a": []}: the list is unwrapped and its first element is read.
C15_Witness ==
    /\ op = "Dframe_of_text"
    /\ WrappedList(doc)
    /\ doc.kids[1].v.kids = <<>>
    /\ result.kind = "raise"
    /\ result.exc = "IndexError"

\* The document each record along the list-valued key lk comes from.
ParentsAlong(d, lk) ==
    Flatten([i \in DOMAIN DocsOf(d) |->
                [r \in DOMAIN Lookup(DocsOf(d)[i], lk).kids |-> DocsOf(d)[i]]])

\* The first element of the payload has exactly one list-valued key.
OneListKey(d) ==
    /\ isdict(d) \/ (islist(d) /\ d.kids # <<>>)
    /\ isdict(DocsOf(d)[1])
    /\ Cardinality(ListKeys(DocsOf(d)[1])) = 1

\* C16: when exactly one key of the first element is list-valued, build_table
\* gives one row per element of that list, document after document and in
\* order; each row carries the scalar keys of its parent document and the keys
\* of its list element, and the columns are the union of both, whether or not
\* the first element has object-valued keys too.
C16_RecordPathRows ==
    (op = "build_table" /\ OneListKey(doc)) =>
        /\ result.kind = "frame"
        /\ LET first == DocsOf(doc)[1]
               lk == CHOOSE k \in ListKeys(first) : TRUE
               recs == RecordsAlong(doc, lk)
               parents == ParentsAlong(doc, lk)
               f == result.frame
           IN  /\ Len(f.table) = Len(recs)
               /\ Range(f.columns) =
                      ScalarKeys(first) \cup UNION {RecordKeys(recs[r]) : r \in DOMAIN recs}
               /\ \A r \in DOMAIN recs :
                      /\ \A k \in ScalarKeys(first) : f.table[r][k] = Lookup(parents[r], k)
                      /\ isdict(recs[r]) =>
                             \A k \in KeysOf(recs[r].kids) : f.table[r][k] = Lookup(recs[r], k)

\* A scalar key of the document is also a key of a list element: json_normalize
\* refuses the conflicting metadata name.
C16_Witness ==
    /\ op = "build_table"
    /\ OneListKey(doc)
    /\ result.kind = "raise"
    /\ result.exc = "ValueError"
    /\ \E k \in ScalarKeys(DocsOf(doc)[1]) :
           \E r \in DOMAIN RecordsAlong(doc, CHOOSE lk \in ListKeys(DocsOf(doc)[1]) : TRUE) :
               k \in RecordKeys(RecordsAlong(doc, CHOOSE lk \in ListKeys(DocsOf(doc)[1]) : TRUE)[r])

\* The payload is neither an object nor a non-empty list of objects.
NoObjects(d) == ~isdict(d) /\ ~(islist(d) /\ d.kids # <<>> /\ AllDicts(d.kids))

\* C17 as stated: build_table raises MalformedPayloadError for a payload that
\* is neither an object nor a list of objects (a bare scalar, an empty list, a
\* list of scalars), and never returns a table for it.
C17_MalformedPayloadRaises ==
    (op = "build_table" /\ NoObjects(doc)) =>
        /\ result.kind = "raise"
        /\ result.exc = "MalformedPayloadError"

\* C17, amended: build_table returns no table for a bare scalar or an empty
\* list: a bare number or null fails with TypeError, an empty list with
\* IndexError, a bare string with an error too.  A non-empty list of scalars
\* gives a table of one column with one row per element, in order.
C17_ScalarAndEmptyListRaise ==
    (op = "build_table" /\ NoObjects(doc)) =>
        IF IsScalar(doc)
        THEN /\ result.kind = "raise"
             /\ doc.t # "str" => result.exc = "TypeError"
        ELSE IF doc.kids = <<>>
        THEN result.kind = "raise" /\ result.exc = "IndexError"
        ELSE /\ result.kind = "frame"
             /\ Len(result.frame.columns) = 1
             /\ Len(result.frame.table) = Len(doc.kids)
             /\ \A i \in DOMAIN doc.kids :
                    result.frame.table[i][result.frame.columns[1]] = doc.kids[i].v

\* A list of two scalars has become a table of two rows.
C17_Witness ==
    /\ op = "build_table"
    /\ islist(doc)
    /\ Len(doc.kids) = 2
    /\ AllScalars(doc.kids)
    /\ doc.kids[1].v # doc.kids[2].v
    /\ result.kind = "frame"
    /\ Len(result.frame.table) = 2

\* C18: attach_attributes binds to the table the response without its "text"
\* entry, and changes neither the response nor the rows and columns of the
\* table.
C18_AttachKeepsTableAndResponse ==
    [][op' = "attach_attributes" =>
          /\ result'.kind = "frame"
          /\ result'.data = result.data
          /\ result'.frame.has_attr
          /\ result'.frame.attr = [k \in DOMAIN result.data \ {"text"} |-> result.data[k]]
          /\ result'.frame.columns = result.frame.columns
          /\ result'.frame.table = result.frame.table]_vars

\* attach_attributes of a table with a row and a column named attr has failed.
C18_Witness ==
    /\ op = "attach_attributes"
    /\ result.kind = "raise"
    /\ result.exc = "ValueError"
    /\ isdict(doc)
    /\ K_attr \in KeysOf(doc.kids)


-----------------------------------------------------------------------------
(* The metadata of the tables the public functions return *)

\* A public function has returned a table, or a dictionary of tables.
ReturnedTable == op \in GetOps /\ result.kind \in {"frame", "frames"}

\* C19: the metadata attached to a table a public function returned holds the
\* response body under "text", a JSON text.
C19_MetadataHoldsText ==
    (ReturnedTable /\ result.frame.has_attr) =>
        /\ "text" \in DOMAIN result.frame.attr
        /\ result.frame.attr["text"].t # "None"

\* get_teams has returned a table whose metadata has the code and no "text".
C19_Witness ==
    /\ op = "get_teams"
    /\ result.kind = "frame"
    /\ result.frame.has_attr
    /\ "code" \in DOMAIN result.frame.attr
    /\ "text" \notin DOMAIN result.frame.attr

\* C20: every table a public function returns, each table of a returned
\* dictionary of tables included, has metadata attached, with code 200 and
\* with the path segments of the call, in order, under "args".
C20_MetadataHoldsCodeAndArgs ==
    ReturnedTable =>
        /\ result.frame.has_attr
        /\ "code" \in DOMAIN result.frame.attr
        /\ result.frame.attr["code"] = 200
        /\ "args" \in DOMAIN result.frame.attr
        /\ result.frame.attr["args"] = Tail(result.req.url)

\* get_district_points has returned its tables, with no metadata attached.
C20_Witness ==
    /\ op = "get_district_points"
    /\ result.kind = "frames"
    /\ ~result.frame.has_attr


-----------------------------------------------------------------------------
(* get_matches *)

\* get_matches has been called in dataframe mode for the full or simple
\* response, and the server has answered 200 with matches.
MatchesAnswered ==
    /\ op = "get_matches"
    /\ session.data_format = "dataframe"
    /\ lower(call.response) \in {"full", "simple"}
    /\ result.req.sent
    /\ server.kind = "response"
    /\ server.code = 200
    /\ match_payload_ok(server.body)

\* C21: get_matches in dataframe mode, for the full or simple response answered
\* 200, returns a table indexed by key and team_key whose metadata holds the
\* response metadata and, under "timezone", the name of the session's time zone.
C21_MatchesTableHasTimezone ==
    MatchesAnswered =>
        /\ result.kind = "frame"
        /\ result.frame.index = <<K_key, <<"team_key">> >>
        /\ result.frame.has_attr
        /\ "timezone" \in DOMAIN result.frame.attr
        /\ result.frame.attr["timezone"] = session.time_zone
        /\ "code" \in DOMAIN result.frame.attr

\* get_matches has built its table and failed on attaching the metadata.
C21_Witness ==
    /\ MatchesAnswered
    /\ call.event # None
    /\ result.kind = "raise"
    /\ result.exc = "TypeError"

\* The combinations of event, team, year and match get_matches accepts.
MatchesArgumentsAllowed(c) ==
    \/ c.event # None /\ c.team = None /\ c.year = None /\ c.match = None
    \/ c.event # None /\ c.team # None /\ c.year = None /\ c.match = None
    \/ c.event = None /\ c.team # None /\ c.year # None /\ c.match = None
    \/ /\ c.event = None /\ c.team = None /\ c.year = None /\ c.match # None
       /\ c.response \in {"full", "simple"}

-----------------------------------------------------------------------------
(* The argument checks of get_teams and get_events *)

\* How many of the values are supplied (not None).
Supplied(vals) == Cardinality({i \in DOMAIN vals : vals[i] # None})

\* C23: get_teams raises ArgumentError, and sends nothing, unless exactly one
\* of page, event and district is supplied and year is supplied only together
\* with page; such a call is not refused.
C23_TeamsArguments ==
    op = "get_teams" =>
        IF /\ Supplied(<<call.page, call.event, call.district>>) = 1
           /\ call.year # None => call.page # None
        THEN result.req.sent /\ result.exc # "ArgumentError"
        ELSE result.kind = "raise" /\ result.exc = "ArgumentError" /\ ~result.req.sent

\* A year next to a district has been refused.
C23_Witness ==
    /\ op = "get_teams"
    /\ call.year # None /\ call.district # None
    /\ call.page = None /\ call.event = None
    /\ result.exc = "ArgumentError"
    /\ ~result.req.sent

-----------------------------------------------------------------------------
(* tbap/api.py: the Session object and its properties *)

\* The outcome of a setter or of the constructor: the session it leaves, and
\* the exception it raised, if any.
SessionOk(sess) == [ok |-> TRUE, exc |-> "", sess |-> sess]
SessionRaise(e, sess) == [ok |-> FALSE, exc |-> e, sess |-> sess]

isstr(val) == val.t = "str"

\* @username.setter and @key.setter
set_username(sess, val) ==
    IF ~isstr(val) THEN SessionRaise("TypeError", sess)
    ELSE SessionOk([sess EXCEPT !.username = val.s])
set_key(sess, val) ==
    IF ~isstr(val) THEN SessionRaise("TypeError", sess)
    ELSE SessionOk([sess EXCEPT !.key = val.s])

\* @data_format.setter without the test of the lower-cased value.
set_data_format_unchecked(sess, val) ==
    IF ~isstr(val) THEN SessionRaise("TypeError", sess)
    ELSE SessionOk([sess EXCEPT !.data_format = lower(val.s)])

\* @data_format.setter
set_data_format(sess, val) ==
    IF ~isstr(val) THEN SessionRaise("TypeError", sess)
    ELSE IF lower(val.s) \notin {"dataframe", "json"} THEN SessionRaise("ValueError", sess)
    ELSE SessionOk([sess EXCEPT !.data_format = lower(val.s)])

\* The zone names pytz knows, of those assigned here.
TimeZones == {"America/Los_Angeles", "America/New_York"}

\* @time_zone.setter: a string goes through pytz.timezone(zone); anything else
\* is refused, a pytz object included (zone.tzname is a method, which is no
\* member of pytz.all_timezones).
set_time_zone(sess, val) ==
    IF isstr(val)
    THEN IF val.s \in TimeZones THEN SessionOk([sess EXCEPT !.time_zone = val.s])
         ELSE SessionRaise("UnknownTimeZoneError", sess)
    ELSE SessionRaise("TypeError", sess)

\* Session.__init__: the four assignments in order; the first that raises ends
\* the construction.
Session_init(username, key, data_format, time_zone) ==
    LET blank == [username |-> "", key |-> "", data_format |-> "", time_zone |-> ""]
        a == set_username(blank, username)
        b == set_key(a.sess, key)
        c == set_data_format(b.sess, data_format)
        d == set_time_zone(c.sess, time_zone)
    IN  IF ~a.ok THEN a ELSE IF ~b.ok THEN b ELSE IF ~c.ok THEN c ELSE d

\* The values assigned: strings, a number, True and None.
PyTrue == [t |-> "bool", s |-> "True", kids |-> <<>>]
NameValues == {JStr("username"), JStr("key"), JNum("42"), PyTrue}
FormatValues ==
    {JStr("dataframe"), JStr("json"), JStr("JSON"), JStr("DataFrame"), JStr("yaml"),
     JStr(""), JNum("42"), PyTrue, JNull}
ZoneValues == {JStr("America/Los_Angeles"), JStr("America/New_York"), JStr("Mars"), JNull}

\* Session("username", "key")
InitSession ==
    /\ session = Session_init(JStr("username"), JStr("key"), JStr("dataframe"),
                              JStr("America/Los_Angeles")).sess
    /\ debug = TRUE
    /\ op = "idle"
    /\ call = BlankCall
    /\ server = NoServer
    /\ result = NoResult
    /\ doc = JNull
    /\ flat = NoFlat

\* An assignment of val to a property of the session has ended with out,
\* which holds the session as the setter left it.
Assigned(name, val, out) ==
    /\ op = "idle"
    /\ op' = name
    /\ doc' = val
    /\ session' = out.sess
    /\ result' = IF out.ok THEN NoResult ELSE Raise(out.exc, NoRequest)
    /\ UNCHANGED <<debug, call, server, flat>>

\* session = api.Session(username, "key", data_format), and with the default
\* session = api.Session(username, "key"): the name is bound to the new object
\* unless the construction raised.
NewSession ==
    \E u \in NameValues, f \in FormatValues :
        LET out == Session_init(u, JStr("key"), f, JStr("America/Los_Angeles")) IN
        /\ op = "idle"
        /\ op' = "Session"
        /\ doc' = f
        /\ session' = IF out.ok THEN out.sess ELSE session
        /\ result' = IF out.ok THEN NoResult ELSE Raise(out.exc, NoRequest)
        /\ UNCHANGED <<debug, call, server, flat>>

SetUsername == \E v \in NameValues : Assigned("set_username", v, set_username(session, v))
SetKey == \E v \in NameValues : Assigned("set_key", v, set_key(session, v))
SetDataFormat ==
    \E v \in FormatValues : Assigned("set_data_format", v, set_data_format(session, v))
SetTimeZone == \E v \in ZoneValues : Assigned("set_time_zone", v, set_time_zone(session, v))

\* api.get_status(session) between the assignments.
GetStatusOfSession ==
    \E srv \in {SrvResponse(200, StatusBody, HttpDate2), SrvHTTPError(401)} :
        Ran("get_status", BlankCall, srv, get_status(session, srv))

ReturnSession ==
    /\ op # "idle"
    /\ op' = "idle"
    /\ server' = NoServer
    /\ result' = NoResult
    /\ doc' = JNull
    /\ UNCHANGED <<session, debug, call, flat>>

NextSession ==
    \/ NewSession
    \/ SetUsername
    \/ SetKey
    \/ SetDataFormat
    \/ SetTimeZone
    \/ GetStatusOfSession
    \/ ReturnSession

SpecSession == InitSession /\ [][NextSession]_vars

-----------------------------------------------------------------------------
(* tbap/server.py: httpdate_to_datetime, datetime_to_httpdate, httpdate_addsec *)

\* An HTTP date string, field by field as written: the names as words, the
\* numbers as digit characters, the zone as a word ("" when none is written).
HttpDateString(wd, day, mon, year, hour, minute, second, zone) ==
    [wd |-> wd, day |-> day, mon |-> mon, year |-> year, hour |-> hour,
     minute |-> minute, second |-> second, zone |-> zone]

WeekdayNames == <<"Mon", "Tue", "Wed", "Thu", "Fri", "Sat", "Sun">>
MonthNames ==
    <<"Jan", "Feb", "Mar", "Apr", "May", "Jun", "Jul", "Aug", "Sep", "Oct", "Nov", "Dec">>

IndexOf(seq, x) == CHOOSE i \in DOMAIN seq : seq[i] = x

\* int(digits) of a string of digit characters.
RECURSIVE int(_)
int(digits) ==
    IF digits = <<>> THEN 0
    ELSE 10 * int(SubSeq(digits, 1, Len(digits) - 1))
            + (IndexOf(Digits, digits[Len(digits)]) - 1)

\* A number as strftime writes it for %d, %H, %M and %S: two digits.
pad2(n) == IF n < 10 THEN <<"0">> \o str(n) ELSE str(n)

\* The calendar of datetime.
is_leap(y) == (y % 4 = 0) /\ ((y % 100 # 0) \/ (y % 400 = 0))
days_in_month(y, m) ==
    IF m = 2 THEN (IF is_leap(y) THEN 29 ELSE 28)
    ELSE IF m \in {4, 6, 9, 11} THEN 30 ELSE 31
RECURSIVE days_before_month(_, _)
days_before_month(y, m) ==
    IF m = 1 THEN 0 ELSE days_before_month(y, m - 1) + days_in_month(y, m - 1)
toordinal(y, m, d) ==
    365 * (y - 1) + ((y - 1) \div 4) - ((y - 1) \div 100) + ((y - 1) \div 400)
        + days_before_month(y, m) + d
\* date.weekday(): Monday is 0.
weekday(y, m, d) == (toordinal(y, m, d) + 6) % 7

\* A datetime; tz is "GMT" for the aware one and "" for the naive one.
Datetime(y, m, d, hh, mm, ss, tz) ==
    [year |-> y, month |-> m, day |-> d, hour |-> hh, minute |-> mm, second |-> ss,
     tz |-> tz]

\* Whether d is a string of lo to hi digit characters.
IsDigits(d, lo, hi) ==
    /\ Len(d) \in lo..hi
    /\ \A i \in DOMAIN d : \E j \in DOMAIN Digits : Digits[j] = d[i]

\* datetime.datetime.strptime(http_date, "%a, %d %b %Y %H:%M:%S %Z"), and
\* without " %Z" when with_zone is FALSE: whether a datetime comes out
\* (otherwise ValueError).  %a takes any weekday name and is not compared
\* with the date; %d, %H, %M and %S take one or two digits; %Z takes GMT and
\* UTC; a second of 60 or 61 passes the pattern and is refused by datetime.
strptime_ok(http_date, with_zone) ==
    /\ \E i \in DOMAIN WeekdayNames : WeekdayNames[i] = http_date.wd
    /\ \E i \in DOMAIN MonthNames : MonthNames[i] = http_date.mon
    /\ IsDigits(http_date.day, 1, 2)
    /\ IsDigits(http_date.year, 4, 4)
    /\ IsDigits(http_date.hour, 1, 2)
    /\ IsDigits(http_date.minute, 1, 2)
    /\ IsDigits(http_date.second, 1, 2)
    /\ IF with_zone THEN http_date.zone \in {"GMT", "UTC"} ELSE http_date.zone = ""
    /\ int(http_date.year) >= 1
    /\ int(http_date.day) \in
           1..days_in_month(int(http_date.year), IndexOf(MonthNames, http_date.mon))
    /\ int(http_date.hour) <= 23
    /\ int(http_date.minute) <= 59
    /\ int(http_date.second) <= 59

\* The outcome of a date function: a datetime, a string, False, or an exception.
DateValue(kind, val) ==
    [kind |-> kind, exc |-> "", data |-> val, frame |-> NoFrame, req |-> NoRequest]
DateFalse == [kind |-> "False", exc |-> "", data |-> EmptyDict, frame |-> NoFrame,
              req |-> NoRequest]

\* httpdate_to_datetime(http_date, gmt): the datetime, aware when gmt, or False.
httpdate_to_datetime(http_date, gmt) ==
    IF ~strptime_ok(http_date, gmt) THEN DateFalse
    ELSE DateValue("datetime",
                   Datetime(int(http_date.year), IndexOf(MonthNames, http_date.mon),
                            int(http_date.day), int(http_date.hour),
                            int(http_date.minute), int(http_date.second),
                            IF gmt THEN "GMT" ELSE ""))

\* datetime_to_httpdate writing the month by its number minus one.
datetime_to_httpdate_month_before(date_time, gmt) ==
    DateValue("str",
        HttpDateString(WeekdayNames[weekday(date_time.year, date_time.month,
                                            date_time.day) + 1],
                       pad2(date_time.day),
                       MonthNames[IF date_time.month = 1 THEN 12 ELSE date_time.month - 1],
                       str(date_time.year), pad2(date_time.hour), pad2(date_time.minute),
                       pad2(date_time.second), IF gmt THEN "GMT" ELSE ""))

\* datetime_to_httpdate(date_time, gmt): strftime with "%a, %d %b %Y %H:%M:%S",
\* followed by " %Z" of the GMT zone when gmt.
datetime_to_httpdate(date_time, gmt) ==
    DateValue("str",
        HttpDateString(WeekdayNames[weekday(date_time.year, date_time.month,
                                            date_time.day) + 1],
                       pad2(date_time.day), MonthNames[date_time.month],
                       str(date_time.year), pad2(date_time.hour), pad2(date_time.minute),
                       pad2(date_time.second), IF gmt THEN "GMT" ELSE ""))

\* dtm + datetime.timedelta(seconds=1)
add_second(dtm) ==
    IF dtm.second < 59 THEN [dtm EXCEPT !.second = dtm.second + 1]
    ELSE IF dtm.minute < 59 THEN [dtm EXCEPT !.second = 0, !.minute = dtm.minute + 1]
    ELSE IF dtm.hour < 23 THEN [dtm EXCEPT !.second = 0, !.minute = 0, !.hour = dtm.hour + 1]
    ELSE IF dtm.day < days_in_month(dtm.year, dtm.month)
    THEN [dtm EXCEPT !.second = 0, !.minute = 0, !.hour = 0, !.day = dtm.day + 1]
    ELSE IF dtm.month < 12
    THEN [dtm EXCEPT !.second = 0, !.minute = 0, !.hour = 0, !.day = 1,
                     !.month = dtm.month + 1]
    ELSE [dtm EXCEPT !.second = 0, !.minute = 0, !.hour = 0, !.day = 1, !.month = 1,
                     !.year = dtm.year + 1]

\* httpdate_addsec(http_date, gmt)
httpdate_addsec(http_date, gmt) ==
    LET dtm == httpdate_to_datetime(http_date, gmt) IN
    IF dtm.kind = "False" THEN Raise("ValueError", NoRequest)
    ELSE IF dtm.data.year = 9999 /\ add_second(dtm.data).year = 10000
    THEN Raise("OverflowError", NoRequest)
    ELSE datetime_to_httpdate(add_second(dtm.data), gmt)

\* The dates and times written: ends of months in leap and other years, the
\* end of a year, the ends of minutes, hours and days, a second of 60.
DateYears == {2016, 2017, 2100}
DateMonths == {2, 8, 12}
DateDays == {3, 28, 29, 30, 31}
DateHours == {6, 23}
DateMinutes == {49, 59}
DateSeconds == {32, 59, 60}
DateZones == {"GMT", "UTC", ""}

\* The strings passed: every date and time above with its own weekday name or
\* with "Mon", with each zone, the day of one digit also written without its
\* zero; and a string that is no date.
HttpDateStrings ==
    {HttpDateString(wd, day, MonthNames[m], str(y), pad2(hh), pad2(mm), pad2(ss), z) :
        wd \in {"Mon"}, day \in {<<"3">>}, m \in DateMonths, y \in DateYears,
        hh \in {6}, mm \in {49}, ss \in {32}, z \in DateZones}
    \cup UNION {
        {HttpDateString(wd, pad2(d), MonthNames[m], str(y), pad2(hh), pad2(mm), pad2(ss), z) :
            wd \in {WeekdayNames[weekday(y, m, d) + 1], "Mon"},
            hh \in DateHours, mm \in DateMinutes, ss \in DateSeconds, z \in DateZones}
        : y \in DateYears, m \in DateMonths, d \in DateDays}
    \cup {HttpDateString("last", <<>>, "week", <<>>, <<>>, <<>>, <<>>, "")}

DateCall(http_date, gmt) == [http_date |-> http_date, gmt |-> gmt]

InitDate ==
    /\ session = DefaultSession
    /\ debug = TRUE
    /\ op = "idle"
    /\ call = BlankCall
    /\ server = NoServer
    /\ result = NoResult
    /\ doc = JNull
    /\ flat = NoFlat

\* server.httpdate_to_datetime(http_date, gmt)
HttpdateToDatetime ==
    \E http_date \in HttpDateStrings, gmt \in BOOLEAN :
        /\ op = "idle"
        /\ op' = "httpdate_to_datetime"
        /\ call' = DateCall(http_date, gmt)
        /\ result' = httpdate_to_datetime(http_date, gmt)
        /\ UNCHANGED <<session, debug, server, doc, flat>>

\* server.datetime_to_httpdate(date_time, gmt) of the datetime just returned.
DatetimeToHttpdate ==
    /\ op = "httpdate_to_datetime"
    /\ result.kind = "datetime"
    /\ op' = "datetime_to_httpdate"
    /\ result' = datetime_to_httpdate(result.data, call.gmt)
    /\ UNCHANGED <<session, debug, call, server, doc, flat>>

\* server.httpdate_addsec(http_date, gmt)
HttpdateAddsec ==
    \E http_date \in HttpDateStrings, gmt \in BOOLEAN :
        /\ op = "idle"
        /\ op' = "httpdate_addsec"
        /\ call' = DateCall(http_date, gmt)
        /\ result' = httpdate_addsec(http_date, gmt)
        /\ UNCHANGED <<session, debug, server, doc, flat>>

ReturnDate ==
    /\ op # "idle"
    /\ op' = "idle"
    /\ call' = BlankCall
    /\ result' = NoResult
    /\ UNCHANGED <<session, debug, server, doc, flat>>

NextDate ==
    \/ HttpdateToDatetime
    \/ DatetimeToHttpdate
    \/ HttpdateAddsec
    \/ ReturnDate

SpecDate == InitDate /\ [][NextDate]_vars

\* A valid GMT HTTP date string: the weekday of the date, a day of two
\* digits, a month, a year of four digits, a time of two digits each up to
\* 23:59:59, and the zone GMT.
ValidHttpDate(h) ==
    /\ \E i \in DOMAIN MonthNames : MonthNames[i] = h.mon
    /\ IsDigits(h.day, 2, 2) /\ IsDigits(h.year, 4, 4)
    /\ IsDigits(h.hour, 2, 2) /\ IsDigits(h.minute, 2, 2) /\ IsDigits(h.second, 2, 2)
    /\ int(h.year) >= 1
    /\ int(h.day) \in 1..days_in_month(int(h.year), IndexOf(MonthNames, h.mon))
    /\ int(h.hour) <= 23 /\ int(h.minute) <= 59 /\ int(h.second) <= 59
    /\ h.wd = WeekdayNames[weekday(int(h.year), IndexOf(MonthNames, h.mon), int(h.day)) + 1]
    /\ h.zone = "GMT"

\* C26: for a valid GMT HTTP date string s, httpdate_to_datetime(s, True) is a
\* datetime of the zone GMT with the hour and the month written in s, and
\* datetime_to_httpdate of it, with gmt True, is s.
C26_HttpDateRoundTrip ==
    /\ (op = "httpdate_to_datetime" /\ call.gmt /\ ValidHttpDate(call.http_date)) =>
           /\ result.kind = "datetime"
           /\ result.data.tz = "GMT"
           /\ result.data.hour = int(call.http_date.hour)
           /\ MonthNames[result.data.month] = call.http_date.mon
    /\ (op = "datetime_to_httpdate" /\ call.gmt /\ ValidHttpDate(call.http_date)) =>
           /\ result.kind = "str"
           /\ result.data = call.http_date

\* Wed, 30 Aug 2017 06:49:32 GMT has gone to a datetime and back.
C26_Witness ==
    /\ op = "datetime_to_httpdate"
    /\ call.gmt
    /\ call.http_date = HttpDateString("Wed", <<"3", "0">>, "Aug", <<"2", "0", "1", "7">>,
                                       <<"0", "6">>, <<"4", "9">>, <<"3", "2">>, "GMT")
    /\ result.data = call.http_date

\* The day, counted from 1 January of year 1, that a valid string names.
DayOf(h) == toordinal(int(h.year), IndexOf(MonthNames, h.mon), int(h.day))

\* The seconds from midnight to the time of day a valid string names.
SecondOfDay(h) == (int(h.hour) * 60 + int(h.minute)) * 60 + int(h.second)

\* The valid string later names the time one second after the valid string h.
OneSecondLater(h, later) ==
    IF SecondOfDay(h) = 86399
    THEN DayOf(later) = DayOf(h) + 1 /\ SecondOfDay(later) = 0
    ELSE DayOf(later) = DayOf(h) /\ SecondOfDay(later) = SecondOfDay(h) + 1

\* C27: httpdate_addsec of a valid HTTP date string returns the valid string
\* of the time one second later, and of a string that is no valid HTTP date
\* it raises ValueError and returns nothing.
C27_AddsecOneSecondLater ==
    (op = "httpdate_addsec" /\ call.gmt) =>
        IF ValidHttpDate(call.http_date)
        THEN /\ result.kind = "str"
             /\ ValidHttpDate(result.data)
             /\ OneSecondLater(call.http_date, result.data)
        ELSE result.kind = "raise" /\ result.exc = "ValueError"

\* Mon, 30 Aug 2017 06:49:32 GMT, a Wednesday, has been answered with a string.
C27_Witness ==
    /\ op = "httpdate_addsec"
    /\ call.gmt
    /\ call.http_date = HttpDateString("Mon", <<"3", "0">>, "Aug", <<"2", "0", "1", "7">>,
                                       <<"0", "6">>, <<"4", "9">>, <<"3", "2">>, "GMT")
    /\ result.kind = "str"
    /\ result.data.wd = "Wed"

-----------------------------------------------------------------------------
(* The session across the calls *)

-----------------------------------------------------------------------------
(* The response dictionary *)

\* C29: in every dictionary send_http_request returns, "text" is present
\* exactly when "code" is present and equals 200, and a dictionary with the
\* code 200 has "text", "url" and "args", also when reading the response
\* failed part-way.
C29_TextIffCode200 ==
    (op = "send_http_request" /\ result.kind = "dict") =>
        LET data == result.data
            ok == "code" \in DOMAIN data /\ data["code"] = 200
        IN  /\ "text" \in DOMAIN data <=> ok
            /\ ok => {"text", "url", "args"} \subseteq DOMAIN data

\* The response arrived with the code 200 and reading its body failed: the
\* dictionary returned holds the code and nothing else.
C29_Witness ==
    /\ op = "send_http_request"
    /\ server = SrvReadError
    /\ result.kind = "dict"
    /\ DOMAIN result.data = {"code"}
    /\ result.data["code"] = 200

-----------------------------------------------------------------------------
(* tbap/api.py: the rows of get_matches *)

PyFalse == [t |-> "bool", s |-> "False", kids |-> <<>>]

\* output[key] = val for every member of extra, in order, on an OrderedDict:
\* a key that is present keeps its place and takes the new value.
RECURSIVE ordered_update(_, _)
ordered_update(output, extra) ==
    IF extra = <<>> THEN output
    ELSE LET m == Head(extra)
             set == IF m.k \in KeysOf(output)
                    THEN [i \in DOMAIN output |->
                             IF output[i].k = m.k THEN m ELSE output[i]]
                    ELSE Append(output, m)
         IN  ordered_update(set, Tail(extra))

\* extract_match(mtch, team_key, alliance, surrogate): the row of one team.
extract_match(mtch, team_key, alliance, surrogate) ==
    LET side == Lookup(Lookup(mtch, <<"alliances">>), <<alliance>>)
        dq == Lookup(side, <<"dq_team_keys">>)
        output == << Member(<<"team_key">>, team_key),
                     Member(<<"alliance">>, JStr(alliance)),
                     Member(<<"surrogate">>, surrogate),
                     Member(<<"score">>, Lookup(side, <<"score">>)),
                     Member(<<"disqualified">>,
                            IF \E i \in DOMAIN dq.kids : dq.kids[i].v = team_key
                            THEN PyTrue ELSE PyFalse) >>
        scalars == SelectSeq(mtch.kids, LAMBDA m : IsScalar(m.v))
        breakdown ==
            IF /\ <<"score_breakdown">> \in KeysOf(mtch.kids)
               /\ Lookup(mtch, <<"score_breakdown">>) # JNull
            THEN Lookup(Lookup(mtch, <<"score_breakdown">>), <<alliance>>).kids
            ELSE <<>>
    IN  JObj(ordered_update(ordered_update(output, scalars), breakdown))

\* The list matches that get_matches hands to pandas.DataFrame: for every
\* match the rows of the blue teams, the blue surrogates, the red teams and the
\* red surrogates.
match_rows(jdata) ==
    LET teams(mtch, alliance, list) ==
            Lookup(Lookup(Lookup(mtch, <<"alliances">>), <<alliance>>), list).kids
        rows(mtch, alliance, list, surrogate) ==
            [i \in DOMAIN teams(mtch, alliance, list) |->
                extract_match(mtch, teams(mtch, alliance, list)[i].v, alliance, surrogate)]
    IN  SeqUnion([i \in DOMAIN jdata.kids |->
                    LET indv_match == jdata.kids[i].v
                    IN  rows(indv_match, "blue", <<"team_keys">>, PyFalse)
                        \o rows(indv_match, "blue", <<"surrogate_team_keys">>, PyTrue)
                        \o rows(indv_match, "red", <<"team_keys">>, PyFalse)
                        \o rows(indv_match, "red", <<"surrogate_team_keys">>, PyTrue)], 1)

\* The entries of the four team lists of the matches of a payload, in source
\* order: blue teams, blue surrogates, red teams, red surrogates of each match.
AllianceEntries(text) ==
    LET jdata == IF islist(text) THEN text ELSE JList(<<Item(text)>>)
        side(mtch, alliance) == Lookup(Lookup(mtch, <<"alliances">>), <<alliance>>)
        entries(mtch, alliance, list, surrogate) ==
            LET teams == Lookup(side(mtch, alliance), list).kids
                dq == Lookup(side(mtch, alliance), <<"dq_team_keys">>).kids
            IN  [i \in DOMAIN teams |->
                    [key |-> Lookup(mtch, K_key),
                     team_key |-> teams[i].v,
                     alliance |-> JStr(alliance),
                     surrogate |-> surrogate,
                     score |-> Lookup(side(mtch, alliance), <<"score">>),
                     disqualified |-> teams[i].v \in {dq[j].v : j \in DOMAIN dq}]]
    IN  SeqUnion([i \in DOMAIN jdata.kids |->
                    entries(jdata.kids[i].v, "blue", <<"team_keys">>, FALSE)
                    \o entries(jdata.kids[i].v, "blue", <<"surrogate_team_keys">>, TRUE)
                    \o entries(jdata.kids[i].v, "red", <<"team_keys">>, FALSE)
                    \o entries(jdata.kids[i].v, "red", <<"surrogate_team_keys">>, TRUE)], 1)

\* The rows of a table are the entries, row for row.
RowsAreEntries(table, entries) ==
    /\ Len(table) = Len(entries)
    /\ \A i \in DOMAIN entries :
        /\ table[i][K_key] = entries[i].key
        /\ table[i][<<"team_key">>] = entries[i].team_key
        /\ table[i][<<"alliance">>] = entries[i].alliance
        /\ table[i][<<"surrogate">>] = (IF entries[i].surrogate THEN PyTrue ELSE PyFalse)
        /\ table[i][<<"score">>] = entries[i].score
        /\ table[i][<<"disqualified">>] =
               (IF entries[i].disqualified THEN PyTrue ELSE PyFalse)

\* C30: get_matches in dataframe mode, for the full or simple response answered
\* 200, returns a table with one row per entry of the blue teams, blue
\* surrogates, red teams and red surrogates of every match, in source order;
\* alliance and surrogate name the list the entry is from, score is the score
\* of that alliance, and disqualified is true exactly for a team listed in the
\* alliance's dq_team_keys.
C30_OneRowPerAllianceEntry ==
    MatchesAnswered =>
        /\ result.kind = "frame"
        /\ RowsAreEntries(result.frame.table, AllianceEntries(server.body))

\* The match with two blue teams, a blue surrogate and a red team was answered:
\* the four rows were built as stated and the call ended with TypeError.
C30_Witness ==
    /\ MatchesAnswered
    /\ server.body = MatchBody
    /\ Len(AllianceEntries(server.body)) = 4
    /\ RowsAreEntries(frame_of_records(match_rows(JList(<<Item(server.body)>>))).table,
                      AllianceEntries(server.body))
    /\ result.kind = "raise"
    /\ result.exc = "TypeError"


====
